---- MODULE Spec2Model ----
(***************************************************************************)
(* The presence and fan-out hub of api/ws/ws.go: the package-level maps    *)
(* activeUsers and activeCalls, the package-level mutex, one               *)
(* handleWebSocket task per accepted connection and its heartbeat          *)
(* goroutine, and the exported Send* emitters that HTTP handlers call.  A  *)
(* program counter pc[c] gives the statement the task c is at; a label     *)
(* names that statement, and a task at a label is executing it.  The chat  *)
(* socket of api/message/message.go is modelled beside the hub.            *)
(***************************************************************************)
EXTENDS Integers, Sequences, FiniteSets, TLC

\* Bounds of the model.
NConn == 2
MaxEnv == 3
MaxList == 2

Conns == 1..NConn
Ids == {"alice", "bob"}
Channels == {"ch1"}

\* The zero value of the handler's local userId, and the zero value of a string.
NoId == ""
\* A data field that is absent from the envelope or is not a JSON string.
Missing == "<missing>"
\* No value stored under a key of activeCalls.
Absent == "<absent>"
\* No *User stored under a key of activeUsers; no holder of the mutex.
None == 0
Free == 0
\* The goroutine of an HTTP handler that calls an exported Send* emitter.
Emitter == -1
\* The read deadline of 60 s, in periods of the 30 s ping ticker.
DeadlineTicks == 2

\* The two goroutines InitiateBidirectionalCall starts (lines 635-636):
\* SendTokenToUser for the caller and SendTokenToUser for the callee.
CallerTokener == -2
CalleeTokener == -3
Tokeners == {CallerTokener, CalleeTokener}

\* The tasks that call sendToUser.
Tasks == Conns \cup {Emitter} \cup Tokeners

Keys == Ids \cup {NoId}

VARIABLES
    conn,        \* conn[c]: the state of handle c ("new", "up", "silent",
                 \* "broken", "closed")
    pc,          \* pc[c]: the statement handleWebSocket(c) is at
    userId,      \* userId[c]: handleWebSocket's local variable userId
    msg,         \* msg[c]: the envelope handleWebSocket(c) is dispatching
    todo,        \* todo[c]: the sendToUser calls the current envelope still makes
    userIds,     \* userIds[c]: broadcastActiveUsers' local slice userIds
    seen,        \* seen[c]: the keys the range over activeUsers has produced
    cur,         \* cur[c]: the *User the range loop of c holds
    ret,         \* ret[c]: where broadcastActiveUsers returns to
    activeUsers, \* the package-level map activeUsers: key -> handle
    activeCalls, \* the package-level map activeCalls: channel -> initiator
    mutex,       \* the package-level mutex: its holder, or Free
    recv,        \* recv[c]: the events written to handle c, in order
    ping,        \* ping[c]: the statement the heartbeat goroutine of c is at
    nEnv,        \* the number of envelopes read and emitter calls made so far
    crashed,     \* the runtime aborted the process on a detected map race
    deadline,    \* deadline[c]: ticker periods left before the read deadline of c
    mpc,         \* mpc[c]: the statement message.HandleWebSocket(c) is at
    req,         \* req[c]: the MessageRequest message.HandleWebSocket(c) holds
    stored,      \* the rows of the messages table, in order of creation
    published,   \* the messages published to the chat channels, in order
    found,       \* found[c]: the rows the checks of message.HandleWebSocket(c)
                 \* found for req[c] (its locals sender, receiver, isFriend)
    userID,      \* userID[c]: message.HandleWebSocket's local variable userID
    hActiveUsers, \* the keys of h.activeUsers, the map of the MessageHandler
    caller,      \* caller[ch]: the connection whose "call-request" wrote the
                 \* entry of ch in activeCalls (history; None without entry)
    notifications, \* the rows of the notifications table, in order of creation
    rest         \* the last request a REST handler served, and its response

\* The state of package message.
mvars == <<mpc, req, stored, published, found, userID, hActiveUsers>>

\* The state of the REST handlers: CreateNotification and SetupCall.
rvars == <<notifications, rest>>

vars == <<conn, pc, userId, msg, todo, userIds, seen, cur, ret, activeUsers,
          activeCalls, mutex, recv, ping, nEnv, crashed, deadline, mvars,
          caller, rvars>>

hvars == <<userIds, seen, cur, ret>>

----------------------------------------------------------------------------
\* Envelopes and events.

\* A value of data that is a list: its dynamic Go type and its items. The
\* decoder of encoding/json stores a JSON array in an interface{} as
\* []interface{}; a Go caller of an emitter passes a []string.
NoList == [dyn |-> "nil", items |-> <<>>]

JsonList(ids) == [dyn |-> "[]interface{}", items |-> ids]

StringSlice(ids) == [dyn |-> "[]string", items |-> ids]

\* The zero envelope. body stands for the data fields that are relayed as they
\* are (chatId, senderId, text, createdAt; post; story; comment).
NoMsg == [type |-> Missing, userId |-> NoId, receiverId |-> Missing,
          action |-> Missing, targetId |-> Missing, channel |-> Missing,
          body |-> Missing, followers |-> NoList, postOwner |-> Missing,
          parentOwner |-> Missing, commentOwner |-> Missing]

\* No request served by a REST handler yet.
NoRest == [fn |-> "", req |-> <<>>, resp |-> [status |-> 0]]

\* The zero MessageRequest of package message.
NoReq == [chatId |-> "", senderId |-> "", text |-> ""]

\* No row looked up for a request yet.
NoFound == [sender |-> FALSE, receiver |-> FALSE, isFriend |-> FALSE]

NewUserAdd(u) == [NoMsg EXCEPT !.type = "new-user-add", !.userId = u]

SendMessage(r) == [NoMsg EXCEPT !.type = "send-message", !.receiverId = r]

AgoraSignal(u, a, t, ch) ==
    [NoMsg EXCEPT !.type = "agora-signal", !.userId = u, !.action = a,
                  !.targetId = t, !.channel = ch]

\* The relayed data fields of an envelope, as opaque values.
Bodies == {"m1", "m2"}

SendMessageWith(r, b) == [SendMessage(r) EXCEPT !.body = b]

\* Envelopes of the cases "post-created", "story-created" and "comment-added";
\* followers is the value ReadJSON stored for the field.
PostCreated(followers, b) ==
    [NoMsg EXCEPT !.type = "post-created", !.followers = followers, !.body = b]

StoryCreated(followers, b) ==
    [NoMsg EXCEPT !.type = "story-created", !.followers = followers, !.body = b]

CommentAdded(postOwner, parentOwner, b) ==
    [NoMsg EXCEPT !.type = "comment-added", !.postOwner = postOwner,
                  !.parentOwner = parentOwner, !.body = b]

\* The envelopes a peer sends in the model.
RegEnvelopes == {NewUserAdd(u) : u \in Ids}

MsgEnvelopes == {SendMessage(r) : r \in Ids \cup {Missing}}

CallEnvelopes ==
    {AgoraSignal(u, a, t, ch) :
        u \in Ids, a \in {"call-request", "call-ended"}, t \in Ids, ch \in Channels}

GetUsers(ids) == [type |-> "get-users", data |-> ids, from |-> NoId]

\* A "receive-message" payload without the envelope's data.
ReceiveMessageBare(m) == [type |-> "receive-message", data |-> {}, from |-> NoId]

\* The payload built at lines 227-235 from the envelope's data.
ReceiveMessage(m) == [type |-> "receive-message", data |-> {m.body}, from |-> NoId]

\* An event that carries the envelope's data, or one field of it, under a new
\* type.
Event(t, m) == [type |-> t, data |-> {m.body}, from |-> NoId]

Signal(m) == [type |-> m.action, data |-> {m.channel}, from |-> m.userId]

ChannelSignal(ch, u) == [type |-> "channel-signal", data |-> {ch}, from |-> u]

\* The "agora-token" event of SendTokenToUser (lines 623-626); of its data, the
\* token record of GetTokenForUser, the event keeps the channel.
AgoraToken(ch) == [type |-> "agora-token", data |-> {ch}, from |-> NoId]

Delivery(to, ev) == [to |-> to, ev |-> ev]

NoCur == [id |-> NoId, h |-> None]

----------------------------------------------------------------------------
\* The connection handle.

\* WriteJSON / WriteMessage on handle h succeeds: the transport works, whether
\* or not the peer still sends anything.
WriteOk(h) == conn[h] \in {"up", "silent"}

\* The set of keys of activeUsers.
Registered == {k \in Keys : activeUsers[k] # None}

TypeOK ==
    /\ conn \in [Conns -> {"new", "up", "silent", "broken", "closed"}]
    /\ userId \in [Conns -> Keys]
    /\ activeUsers \in [Keys -> Conns \cup {None}]
    /\ activeCalls \in [Channels -> Ids \cup {Absent}]
    /\ mutex \in Tasks \cup {Free}
    /\ nEnv \in 0..MaxEnv
    /\ crashed \in BOOLEAN
    /\ deadline \in [Conns -> 0..DeadlineTicks]
    /\ caller \in [Channels -> Conns \cup {None}]
    /\ userID \in [Conns -> Keys]
    /\ hActiveUsers \subseteq Ids

Init ==
    /\ conn = [c \in Conns |-> "new"]
    /\ pc = [c \in Tasks |-> "idle"]
    /\ userId = [c \in Conns |-> NoId]
    /\ msg = [c \in Tasks |-> NoMsg]
    /\ todo = [c \in Tasks |-> <<>>]
    /\ userIds = [c \in Conns |-> {}]
    /\ seen = [c \in Conns |-> {}]
    /\ cur = [c \in Conns |-> NoCur]
    /\ ret = [c \in Conns |-> "read"]
    /\ activeUsers = [k \in Keys |-> None]
    /\ activeCalls = [ch \in Channels |-> Absent]
    /\ mutex = Free
    /\ recv = [c \in Conns |-> <<>>]
    /\ ping = [c \in Conns |-> "off"]
    /\ nEnv = 0
    /\ crashed = FALSE
    /\ deadline = [c \in Conns |-> 0]
    /\ mpc = [c \in Conns |-> "idle"]
    /\ req = [c \in Conns |-> NoReq]
    /\ stored = <<>>
    /\ published = <<>>
    /\ found = [c \in Conns |-> NoFound]
    /\ userID = [c \in Conns |-> NoId]
    /\ hActiveUsers = {}
    /\ caller = [ch \in Channels |-> None]
    /\ notifications = <<>>
    /\ rest = NoRest

----------------------------------------------------------------------------
\* The environment: connections are accepted, peers send envelopes, and
\* transports fail.

\* fiber accepts a connection and starts handleWebSocket on it: line 168 sets
\* the read deadline and line 169 starts the heartbeat goroutine.
Accept(c) ==
    /\ ~crashed
    /\ conn[c] = "new"
    /\ conn' = [conn EXCEPT ![c] = "up"]
    /\ pc' = [pc EXCEPT ![c] = "read"]
    /\ ping' = [ping EXCEPT ![c] = "sleep"]
    /\ deadline' = [deadline EXCEPT ![c] = DeadlineTicks]
    /\ UNCHANGED <<userId, msg, todo, hvars, activeUsers, activeCalls, mutex,
                   recv, nEnv, crashed, mvars, caller, rvars>>

\* The peer goes away or the transport fails: reads and writes on c now fail.
Break(c) ==
    /\ ~crashed
    /\ conn[c] = "up"
    /\ conn' = [conn EXCEPT ![c] = "broken"]
    /\ UNCHANGED <<pc, userId, msg, todo, hvars, activeUsers, activeCalls,
                   mutex, recv, ping, nEnv, crashed, deadline, mvars, caller, rvars>>

----------------------------------------------------------------------------
\* handleWebSocket: the receive loop.

\* The switch on msg.Type: where the handler goes and what it will deliver.
\* The envelope is of a relay case and lacks a field the case requires: the
\* field is absent from data or is no JSON string (no JSON array, for
\* followers), or targetId is the empty string.
Malformed(m) ==
    \/ m.type \in {"send-message", "notification"} /\ m.receiverId = Missing
    \/ m.type \in {"post-reaction", "comment-added"} /\ m.postOwner = Missing
    \/ m.type = "comment-reaction" /\ m.commentOwner = Missing
    \/ m.type \in {"post-created", "story-created"} /\ m.followers.dyn = "nil"
    \/ m.type = "agora-signal"
          /\ (m.action = Missing \/ m.targetId \in {Missing, NoId})

\* A switch that ends the connection on a malformed envelope.
DispatchPcStrict(m) ==
    IF Malformed(m) THEN "cl_lock"
    ELSE IF m.type = "new-user-add" THEN "reg" ELSE "read"

\* The type assertion .([]string) of lines 250 and 308.
IsStringSlice(v) == v.dyn = "[]string"

\* The loop of lines 256-261, 314-319, 647-652 and 683-688: one sendToUser for
\* each follower, in the order of the list.
FanOut(followers, ev) ==
    [i \in 1..Len(followers) |-> Delivery(followers[i], ev)]

\* Lines 282-293 and 663-672: "new-comment" to postOwner, then "new-reply" to
\* parentOwner when it is a string that is not empty.
CommentDeliveries(m) ==
    <<Delivery(m.postOwner, Event("new-comment", m))>>
    \o (IF m.parentOwner \notin {Missing, NoId}
        THEN <<Delivery(m.parentOwner, Event("new-reply", m))>>
        ELSE <<>>)

\* The sendToUser calls of the cases that relay to the identities named in
\* the envelope's data (lines 237-319).
Relays(m) ==
    CASE m.type = "notification" /\ m.receiverId # Missing ->
            <<Delivery(m.receiverId, Event("notification", m))>>
      [] m.type = "post-created" /\ IsStringSlice(m.followers) ->
            FanOut(m.followers.items, Event("new-post", m))
      [] m.type = "story-created" /\ IsStringSlice(m.followers) ->
            FanOut(m.followers.items, Event("new-story", m))
      [] m.type = "post-reaction" /\ m.postOwner # Missing ->
            <<Delivery(m.postOwner, Event("post-reaction-update", m))>>
      [] m.type = "comment-reaction" /\ m.commentOwner # Missing ->
            <<Delivery(m.commentOwner, Event("comment-reaction-update", m))>>
      [] m.type = "comment-added" /\ m.postOwner # Missing ->
            CommentDeliveries(m)
      [] OTHER -> <<>>

DispatchPc(m) ==
    CASE m.type = "new-user-add" -> "reg"
      [] m.type = "send-message" ->
            IF m.receiverId = Missing THEN "read" ELSE "stu_lock"
      [] Relays(m) # <<>> -> "stu_lock"
      [] m.type = "agora-signal" ->
            IF m.action = Missing \/ m.targetId \in {Missing, NoId} THEN "read"
            ELSE IF m.action \in {"call-request", "call-rejected", "call-ended"}
                    /\ m.channel \notin {Missing, NoId}
                 THEN "call_set"
                 ELSE "stu_lock"
      [] OTHER -> "read"

DispatchTodo(m) ==
    CASE m.type = "send-message" /\ m.receiverId # Missing ->
            <<Delivery(m.receiverId, ReceiveMessage(m))>>
      [] m.type = "agora-signal" /\ DispatchPc(m) # "read" ->
            <<Delivery(m.targetId, Signal(m))>>
      [] OTHER -> Relays(m)

\* case "call-accepted" with a channel that is not empty (lines 367-369): the
\* handler starts InitiateBidirectionalCall(targetId, msg.UserId, channel).
Spawns(m) ==
    /\ m.type = "agora-signal"
    /\ m.action = "call-accepted"
    /\ m.targetId \notin {Missing, NoId}
    /\ m.channel \notin {Missing, NoId}

\* The two token goroutines of the model are free to be started.
TokenersIdle == \A t \in Tokeners : pc[t] = "idle"

\* The statements of the tasks after the dispatch of m has taken the
\* handler's to p: the goroutines of lines 635-636 are at their sendToUser.
SpawnPc(m, p) ==
    IF Spawns(m)
    THEN [t \in Tasks |-> IF t \in Tokeners THEN "stu_lock" ELSE p[t]]
    ELSE p

\* And their sendToUser calls: the token goes to callerId = targetId and to
\* calleeId = msg.UserId.
SpawnTodo(m, f) ==
    IF Spawns(m)
    THEN [t \in Tasks |->
            IF t = CallerTokener
            THEN <<Delivery(m.targetId, AgoraToken(m.channel))>>
            ELSE IF t = CalleeTokener
            THEN <<Delivery(m.userId, AgoraToken(m.channel))>>
            ELSE f[t]]
    ELSE f

\* c.ReadJSON(&msg) returns an envelope, and the switch dispatches it.
Recv(c, E) ==
    /\ ~crashed
    /\ pc[c] = "read"
    /\ conn[c] = "up"
    /\ nEnv < MaxEnv
    /\ \E m \in E :
          /\ Spawns(m) => TokenersIdle
          /\ pc' = SpawnPc(m, [pc EXCEPT ![c] = DispatchPc(m)])
          /\ todo' = SpawnTodo(m, [todo EXCEPT ![c] = DispatchTodo(m)])
          /\ msg' = [msg EXCEPT ![c] = IF DispatchPc(m) = "call_set" THEN m ELSE NoMsg]
          /\ userId' = [userId EXCEPT
                          ![c] = IF m.type = "new-user-add" THEN m.userId ELSE @]
    /\ nEnv' = nEnv + 1
    /\ UNCHANGED <<conn, hvars, activeUsers, activeCalls, mutex, recv, ping, crashed, deadline, mvars, caller, rvars>>

\* The same two statements one at a time: c.ReadJSON(&msg) fills msg with the
\* envelope the peer sent (line 195).
ReadJSON(c, E) ==
    /\ ~crashed
    /\ pc[c] = "read"
    /\ conn[c] = "up"
    /\ nEnv < MaxEnv
    /\ \E m \in E : msg' = [msg EXCEPT ![c] = m]
    /\ pc' = [pc EXCEPT ![c] = "switch"]
    /\ nEnv' = nEnv + 1
    /\ UNCHANGED <<conn, userId, todo, hvars, activeUsers, activeCalls, mutex,
                   recv, ping, crashed, deadline, mvars, caller, rvars>>

\* switch msg.Type (line 206) up to the first sendToUser or mutex.Lock of the
\* case, or to the continue that drops the envelope.
Switch(c) ==
    /\ ~crashed
    /\ pc[c] = "switch"
    /\ Spawns(msg[c]) => TokenersIdle
    /\ pc' = SpawnPc(msg[c], [pc EXCEPT ![c] = DispatchPc(msg[c])])
    /\ todo' = SpawnTodo(msg[c], [todo EXCEPT ![c] = DispatchTodo(msg[c])])
    /\ userId' = [userId EXCEPT
                    ![c] = IF msg[c].type = "new-user-add" THEN msg[c].userId ELSE @]
    /\ msg' = [msg EXCEPT
                 ![c] = IF DispatchPc(msg[c]) \in {"read", "reg"} THEN NoMsg ELSE @]
    /\ UNCHANGED <<conn, hvars, activeUsers, activeCalls, mutex, recv, ping,
                   nEnv, crashed, deadline, mvars, caller, rvars>>

\* c.ReadJSON(&msg) reads a frame that does not decode into msg (no JSON, or
\* a field of another JSON type): it returns the decoder's error, and line 201
\* breaks out of the loop as for any other error.
ReadUndecodable(c) ==
    /\ ~crashed
    /\ pc[c] = "read"
    /\ conn[c] = "up"
    /\ nEnv < MaxEnv
    /\ pc' = [pc EXCEPT ![c] = "cl_lock"]
    /\ nEnv' = nEnv + 1
    /\ UNCHANGED <<conn, userId, msg, todo, hvars, activeUsers, activeCalls,
                   mutex, recv, ping, crashed, deadline, mvars, caller, rvars>>

\* c.ReadJSON(&msg) returns an error: break out of the loop.
ReadFail(c) ==
    /\ ~crashed
    /\ pc[c] = "read"
    /\ conn[c] \in {"broken", "closed"}
    /\ pc' = [pc EXCEPT ![c] = "cl_lock"]
    /\ UNCHANGED <<conn, userId, msg, todo, hvars, activeUsers, activeCalls,
                   mutex, recv, ping, nEnv, crashed, deadline, mvars, caller, rvars>>

\* Register without the "exists" test of line 210: a later registration
\* replaces the entry.
RegisterOverwrite(c) ==
    /\ ~crashed
    /\ pc[c] = "reg"
    /\ mutex = Free
    /\ activeUsers' = [activeUsers EXCEPT ![userId[c]] = c]
    /\ pc' = [pc EXCEPT ![c] = "ba_snap"]
    /\ ret' = [ret EXCEPT ![c] = "read"]
    /\ UNCHANGED <<conn, userId, msg, todo, userIds, seen, cur, activeCalls,
                   mutex, recv, ping, nEnv, crashed, deadline, mvars, caller, rvars>>

\* case "new-user-add": the critical section of lines 209-216.
Register(c) ==
    /\ ~crashed
    /\ pc[c] = "reg"
    /\ mutex = Free
    /\ IF activeUsers[userId[c]] # None
       THEN /\ pc' = [pc EXCEPT ![c] = "read"]
            /\ UNCHANGED <<activeUsers, ret>>
       ELSE /\ activeUsers' = [activeUsers EXCEPT ![userId[c]] = c]
            /\ pc' = [pc EXCEPT ![c] = "ba_snap"]
            /\ ret' = [ret EXCEPT ![c] = "read"]
    /\ UNCHANGED <<conn, userId, msg, todo, userIds, seen, cur, activeCalls,
                   mutex, recv, ping, nEnv, crashed, deadline, mvars, caller, rvars>>

\* case "agora-signal", actions call-request / call-rejected / call-ended: the
\* critical section that records or clears the call.
CallSet(c) ==
    /\ ~crashed
    /\ pc[c] = "call_set"
    /\ mutex = Free
    /\ activeCalls' = [activeCalls EXCEPT
                         ![msg[c].channel] = IF msg[c].action = "call-request"
                                             THEN msg[c].userId ELSE Absent]
    /\ caller' = [caller EXCEPT
                    ![msg[c].channel] = IF msg[c].action = "call-request"
                                        THEN c ELSE None]
    /\ pc' = [pc EXCEPT ![c] = "stu_lock"]
    /\ msg' = [msg EXCEPT ![c] = NoMsg]
    /\ UNCHANGED <<conn, userId, todo, hvars, activeUsers, mutex, recv, ping,
                   nEnv, crashed, deadline, mvars, rvars>>

----------------------------------------------------------------------------
\* The handler is back at c.ReadJSON, or has returned: its locals are dead.
Return(c, to) ==
    /\ pc' = [pc EXCEPT ![c] = to]
    /\ userIds' = [userIds EXCEPT ![c] = {}]
    /\ seen' = [seen EXCEPT ![c] = {}]
    /\ cur' = [cur EXCEPT ![c] = NoCur]
    /\ ret' = [ret EXCEPT ![c] = "read"]

\* broadcastActiveUsers, lines 534-539: the snapshot of the keys, under the mutex.
BaSnap(c) ==
    /\ ~crashed
    /\ pc[c] = "ba_snap"
    /\ mutex = Free
    /\ userIds' = [userIds EXCEPT ![c] = Registered]
    /\ seen' = [seen EXCEPT ![c] = {}]
    /\ pc' = [pc EXCEPT ![c] = "ba_next"]
    /\ UNCHANGED <<conn, userId, msg, todo, cur, ret, activeUsers, activeCalls,
                   mutex, recv, ping, nEnv, crashed, deadline, mvars, caller, rvars>>

\* broadcastActiveUsers, line 542: the range over the live map, without the
\* mutex, produces an entry it has not produced yet, or ends.
BaNext(c) ==
    /\ ~crashed
    /\ pc[c] = "ba_next"
    /\ IF Registered \subseteq seen[c]
       THEN /\ IF ret[c] = "read" THEN Return(c, "read") ELSE Return(c, "close")
       ELSE /\ \E k \in Registered \ seen[c] :
                  /\ cur' = [cur EXCEPT ![c] = [id |-> k, h |-> activeUsers[k]]]
                  /\ seen' = [seen EXCEPT ![c] = @ \cup {k}]
            /\ pc' = [pc EXCEPT ![c] = "ba_write"]
            /\ UNCHANGED <<userIds, ret>>
    /\ UNCHANGED <<conn, userId, msg, todo, activeUsers, activeCalls, mutex,
                   recv, ping, nEnv, crashed, deadline, mvars, caller, rvars>>

\* broadcastActiveUsers, lines 543-548: user.Conn.WriteJSON of the snapshot, and
\* user.Conn.Close() when the write fails.
BaWrite(c) ==
    /\ ~crashed
    /\ pc[c] = "ba_write"
    /\ IF WriteOk(cur[c].h)
       THEN /\ recv' = [recv EXCEPT ![cur[c].h] = Append(@, GetUsers(userIds[c]))]
            /\ pc' = [pc EXCEPT ![c] = "ba_next"]
            /\ cur' = [cur EXCEPT ![c] = NoCur]
            /\ UNCHANGED conn
       ELSE /\ conn' = [conn EXCEPT ![cur[c].h] = "closed"]
            /\ pc' = [pc EXCEPT ![c] = "ba_del"]
            /\ UNCHANGED <<recv, cur>>
    /\ UNCHANGED <<userId, msg, todo, userIds, seen, ret, activeUsers,
                   activeCalls, mutex, ping, nEnv, crashed, deadline, mvars, caller, rvars>>

\* broadcastActiveUsers, lines 549-551: delete(activeUsers, user.UserID) under
\* the mutex.
BaDel(c) ==
    /\ ~crashed
    /\ pc[c] = "ba_del"
    /\ mutex = Free
    /\ activeUsers' = [activeUsers EXCEPT ![cur[c].id] = None]
    /\ pc' = [pc EXCEPT ![c] = "ba_next"]
    /\ cur' = [cur EXCEPT ![c] = NoCur]
    /\ UNCHANGED <<conn, userId, msg, todo, userIds, seen, ret, activeCalls,
                   mutex, recv, ping, nEnv, crashed, deadline, mvars, caller, rvars>>

----------------------------------------------------------------------------
\* mutex.Lock() where the critical section that follows makes calls or writes
\* to a handle: in sendToUser, in the disconnect cleanup, in broadcastToChannel.
\* sync.Mutex is not reentrant: Lock blocks while anyone, the caller included,
\* holds the mutex.
LockLabels == {"stu_lock", "cl_lock", "btc_lock"}

AfterLock(l) ==
    CASE l = "stu_lock" -> "stu_body"
      [] l = "cl_lock" -> "cl_body"
      [] l = "btc_lock" -> "btc_body"

Lock(c) ==
    /\ ~crashed
    /\ pc[c] \in LockLabels
    /\ mutex = Free
    /\ mutex' = c
    /\ pc' = [pc EXCEPT ![c] = AfterLock(pc[c])]
    /\ UNCHANGED <<conn, userId, msg, todo, hvars, activeUsers, activeCalls,
                   recv, ping, nEnv, crashed, deadline, mvars, caller, rvars>>

\* Where a task goes when the last sendToUser of its operation has returned:
\* the handler back to c.ReadJSON, the emitter out of the Send* function, a
\* token goroutine to its end.
AfterSend(c) == IF c \in Conns THEN "read" ELSE "idle"

\* sendToUser raising a missing target to its caller, who leaves the loop.
SendToUserRaising(c) ==
    LET d == Head(todo[c])
        h == activeUsers[d.to]
    IN  /\ IF h = None
           THEN UNCHANGED <<recv, conn, activeUsers>>
           ELSE IF WriteOk(h)
                THEN /\ recv' = [recv EXCEPT ![h] = Append(@, d.ev)]
                     /\ UNCHANGED <<conn, activeUsers>>
                ELSE /\ conn' = [conn EXCEPT ![h] = "closed"]
                     /\ activeUsers' = [activeUsers EXCEPT ![d.to] = None]
                     /\ UNCHANGED recv
        /\ mutex' = Free
        /\ todo' = [todo EXCEPT ![c] = IF h = None THEN <<>> ELSE Tail(@)]
        /\ pc' = [pc EXCEPT ![c] = IF h = None THEN "cl_lock"
                                   ELSE IF Tail(todo[c]) = <<>> THEN "read"
                                   ELSE "stu_lock"]
        /\ UNCHANGED <<userId, msg, hvars, activeCalls>>

\* sendToUser treating a failed write as the disconnect of its caller: it
\* closes the target's handle and deletes the caller's entry.
SendToUserDropsCaller(c) ==
    LET d == Head(todo[c])
        h == activeUsers[d.to]
    IN  /\ IF h = None
           THEN UNCHANGED <<recv, conn, activeUsers>>
           ELSE IF WriteOk(h)
                THEN /\ recv' = [recv EXCEPT ![h] = Append(@, d.ev)]
                     /\ UNCHANGED <<conn, activeUsers>>
                ELSE /\ conn' = [conn EXCEPT ![h] = "closed"]
                     /\ activeUsers' = [activeUsers EXCEPT ![userId[c]] = None]
                     /\ UNCHANGED recv
        /\ mutex' = Free
        /\ todo' = [todo EXCEPT ![c] = Tail(@)]
        /\ pc' = [pc EXCEPT ![c] = IF Tail(todo[c]) = <<>> THEN AfterSend(c)
                                   ELSE "stu_lock"]
        /\ msg' = [msg EXCEPT ![c] = IF Tail(todo[c]) = <<>> THEN NoMsg ELSE @]
        /\ UNCHANGED <<userId, hvars, activeCalls>>

\* sendToUser writing the event to the target's handle and to every other
\* working handle in activeUsers.
SendToUserEveryone(c) ==
    LET d == Head(todo[c])
        h == activeUsers[d.to]
        all == {activeUsers[k] : k \in Registered}
    IN  /\ IF h = None
           THEN UNCHANGED <<recv, conn, activeUsers>>
           ELSE IF WriteOk(h)
                THEN /\ recv' = [g \in Conns |->
                                  IF g \in all /\ WriteOk(g)
                                  THEN Append(recv[g], d.ev) ELSE recv[g]]
                     /\ UNCHANGED <<conn, activeUsers>>
                ELSE /\ conn' = [conn EXCEPT ![h] = "closed"]
                     /\ activeUsers' = [activeUsers EXCEPT ![d.to] = None]
                     /\ UNCHANGED recv
        /\ mutex' = Free
        /\ todo' = [todo EXCEPT ![c] = Tail(@)]
        /\ pc' = [pc EXCEPT ![c] = IF Tail(todo[c]) = <<>> THEN AfterSend(c)
                                   ELSE "stu_lock"]
        /\ msg' = [msg EXCEPT ![c] = IF Tail(todo[c]) = <<>> THEN NoMsg ELSE @]
        /\ UNCHANGED <<userId, hvars, activeCalls>>

\* sendToUser whose write overtakes the events written to the handle before.
SendToUserOvertaking(c) ==
    LET d == Head(todo[c])
        h == activeUsers[d.to]
    IN  /\ IF h = None
           THEN UNCHANGED <<recv, conn, activeUsers>>
           ELSE IF WriteOk(h)
                THEN /\ recv' = [recv EXCEPT ![h] = <<d.ev>> \o @]
                     /\ UNCHANGED <<conn, activeUsers>>
                ELSE /\ conn' = [conn EXCEPT ![h] = "closed"]
                     /\ activeUsers' = [activeUsers EXCEPT ![d.to] = None]
                     /\ UNCHANGED recv
        /\ mutex' = Free
        /\ todo' = [todo EXCEPT ![c] = Tail(@)]
        /\ pc' = [pc EXCEPT ![c] = IF Tail(todo[c]) = <<>> THEN AfterSend(c)
                                   ELSE "stu_lock"]
        /\ msg' = [msg EXCEPT ![c] = IF Tail(todo[c]) = <<>> THEN NoMsg ELSE @]
        /\ UNCHANGED <<userId, hvars, activeCalls>>

\* sendToUser, lines 560-570, and the deferred mutex.Unlock().
SendToUserBody(c) ==
    LET d == Head(todo[c])
        h == activeUsers[d.to]
    IN  /\ IF h = None
           THEN UNCHANGED <<recv, conn, activeUsers>>
           ELSE IF WriteOk(h)
                THEN /\ recv' = [recv EXCEPT ![h] = Append(@, d.ev)]
                     /\ UNCHANGED <<conn, activeUsers>>
                ELSE /\ conn' = [conn EXCEPT ![h] = "closed"]
                     /\ activeUsers' = [activeUsers EXCEPT ![d.to] = None]
                     /\ UNCHANGED recv
        /\ mutex' = Free
        /\ todo' = [todo EXCEPT ![c] = Tail(@)]
        /\ pc' = [pc EXCEPT ![c] = IF Tail(todo[c]) = <<>> THEN AfterSend(c)
                                   ELSE "stu_lock"]
        /\ msg' = [msg EXCEPT ![c] = IF Tail(todo[c]) = <<>> THEN NoMsg ELSE @]
        /\ UNCHANGED <<userId, hvars, activeCalls>>

\* The disconnect cleanup, line 445: delete(activeUsers, userId).
CleanupDelete(c) ==
    /\ activeUsers' = [activeUsers EXCEPT ![userId[c]] = None]
    /\ pc' = [pc EXCEPT ![c] = "cl_calls"]
    /\ UNCHANGED <<conn, userId, msg, todo, hvars, activeCalls, mutex, recv>>

\* The disconnect cleanup, lines 446-458: the range over activeCalls. A call
\* the user initiated is deleted and broadcastToChannel is called with the
\* mutex held; with none left the mutex is released and
\* broadcastActiveUsers follows.
CleanupCalls(c) ==
    LET mine == {ch \in Channels : activeCalls[ch] = userId[c]}
    IN  IF mine # {}
        THEN /\ \E ch \in mine :
                   /\ activeCalls' = [activeCalls EXCEPT ![ch] = Absent]
                   /\ msg' = [msg EXCEPT ![c] = [NoMsg EXCEPT !.channel = ch]]
             /\ pc' = [pc EXCEPT ![c] = "btc_lock"]
             /\ UNCHANGED <<conn, userId, todo, hvars, activeUsers, mutex, recv>>
        ELSE /\ mutex' = Free
             /\ pc' = [pc EXCEPT ![c] = "ba_snap"]
             /\ ret' = [ret EXCEPT ![c] = "close"]
             /\ UNCHANGED <<conn, userId, msg, todo, userIds, seen, cur,
                            activeUsers, activeCalls, recv>>

\* broadcastToChannel, lines 516-530, and the deferred mutex.Unlock(): a
\* "channel-signal" is written to every entry but excludeUserId's; a failed
\* write is only logged.
BroadcastToChannelBody(c) ==
    LET targets == {activeUsers[k] : k \in {j \in Registered : j # userId[c]}}
    IN  /\ recv' = [h \in Conns |->
                      IF h \in targets /\ WriteOk(h)
                      THEN Append(recv[h], ChannelSignal(msg[c].channel, NoId))
                      ELSE recv[h]]
        /\ mutex' = Free
        /\ msg' = [msg EXCEPT ![c] = NoMsg]
        /\ pc' = [pc EXCEPT ![c] = "cl_calls"]
        /\ UNCHANGED <<conn, userId, todo, hvars, activeUsers, activeCalls>>

\* A step of a handler inside a critical section it entered through Lock.
Critical(c) ==
    /\ ~crashed
    /\ mutex = c
    /\ CASE pc[c] = "stu_body" -> SendToUserBody(c)
         [] pc[c] = "cl_body" -> CleanupDelete(c)
         [] pc[c] = "cl_calls" -> CleanupCalls(c)
         [] pc[c] = "btc_body" -> BroadcastToChannelBody(c)
         [] OTHER -> FALSE
    /\ caller' = [ch \in Channels |->
                    IF activeCalls'[ch] = Absent THEN None ELSE caller[ch]]
    /\ UNCHANGED <<ping, nEnv, crashed, deadline, mvars, rvars>>

----------------------------------------------------------------------------
\* The exported emitters, lines 639-689, called by the HTTP handlers of the
\* other packages. A call is written as a record of the shape of an envelope:
\* type is the function's name, the other fields are its arguments.

SendPostCreated(followers, post) ==
    [NoMsg EXCEPT !.type = "SendPostCreated", !.followers = StringSlice(followers),
                  !.body = post]

SendStoryCreated(followers, story) ==
    [NoMsg EXCEPT !.type = "SendStoryCreated", !.followers = StringSlice(followers),
                  !.body = story]

SendCommentAdded(postOwner, parentOwner, comment) ==
    [NoMsg EXCEPT !.type = "SendCommentAdded", !.postOwner = postOwner,
                  !.parentOwner = parentOwner, !.body = comment]

SendNotification(userId_, notification) ==
    [NoMsg EXCEPT !.type = "SendNotification", !.receiverId = userId_,
                  !.body = notification]

\* An emitter that looks its targets up when it is called and keeps the ones
\* that are registered at that moment.
EmitTodoOnline(m) ==
    SelectSeq(FanOut(m.followers.items, Event("new-post", m)),
              LAMBDA d : activeUsers[d.to] # None)

\* The sendToUser calls the emitter makes, in order.
EmitTodo(m) ==
    CASE m.type = "SendPostCreated" ->
            FanOut(m.followers.items, Event("new-post", m))
      [] m.type = "SendStoryCreated" ->
            FanOut(m.followers.items, Event("new-story", m))
      [] m.type = "SendCommentAdded" ->
            <<Delivery(m.postOwner, Event("new-comment", m))>>
            \o (IF m.parentOwner # NoId
                THEN <<Delivery(m.parentOwner, Event("new-reply", m))>>
                ELSE <<>>)
      [] m.type = "SendNotification" ->
            <<Delivery(m.receiverId, Event("notification", m))>>
      [] OTHER -> <<>>

\* An HTTP handler calls an emitter. The call counts in nEnv for the
\* sendToUser calls it makes, and for one when it makes none.
Emit(E) ==
    /\ ~crashed
    /\ pc[Emitter] = "idle"
    /\ \E m \in E :
          LET n == IF EmitTodo(m) = <<>> THEN 1 ELSE Len(EmitTodo(m))
          IN  /\ nEnv + n <= MaxEnv
              /\ nEnv' = nEnv + n
              /\ todo' = [todo EXCEPT ![Emitter] = EmitTodo(m)]
              /\ msg' = [msg EXCEPT
                           ![Emitter] = IF EmitTodo(m) = <<>> THEN NoMsg ELSE m]
              /\ pc' = [pc EXCEPT ![Emitter] = IF EmitTodo(m) = <<>> THEN "idle"
                                               ELSE "stu_lock"]
    /\ UNCHANGED <<conn, userId, hvars, activeUsers, activeCalls, mutex, recv,
                   ping, crashed, deadline, mvars, caller, rvars>>

\* A step of the emitter task inside sendToUser.
EmitterStep == Lock(Emitter) \/ Critical(Emitter)

\* A step of the token goroutine t inside the sendToUser of SendTokenToUser.
TokenStep(t) == Lock(t) \/ Critical(t)

\* The disconnect cleanup, line 462: c.Close(), and handleWebSocket returns.
Close(c) ==
    /\ ~crashed
    /\ pc[c] = "close"
    /\ conn' = [conn EXCEPT ![c] = "closed"]
    /\ pc' = [pc EXCEPT ![c] = "done"]
    /\ UNCHANGED <<userId, msg, todo, hvars, activeUsers, activeCalls, mutex,
                   recv, ping, nEnv, crashed, deadline, mvars, caller, rvars>>

----------------------------------------------------------------------------
\* The heartbeat goroutine of handleWebSocket, lines 169-179.

\* The ticker fires.
PingTick(c) ==
    /\ ~crashed
    /\ ping[c] = "sleep"
    /\ ping' = [ping EXCEPT ![c] = "write"]
    /\ UNCHANGED <<conn, pc, userId, msg, todo, hvars, activeUsers, activeCalls,
                   mutex, recv, nEnv, crashed, deadline, mvars, caller, rvars>>

\* c.WriteMessage(websocket.PingMessage, nil): the goroutine returns on an
\* error, and after a ping that was written it sets the read deadline anew
\* (line 177).
PingWrite(c) ==
    /\ ~crashed
    /\ ping[c] = "write"
    /\ ping' = [ping EXCEPT ![c] = IF WriteOk(c) THEN "sleep" ELSE "done"]
    /\ deadline' = [deadline EXCEPT ![c] = IF WriteOk(c) THEN DeadlineTicks ELSE @]
    /\ UNCHANGED <<conn, pc, userId, msg, todo, hvars, activeUsers, activeCalls,
                   mutex, recv, nEnv, crashed, mvars, caller, rvars>>

\* The peer stops sending frames and stops answering pings; its transport
\* still takes what is written to it.
Silence(c) ==
    /\ ~crashed
    /\ conn[c] = "up"
    /\ conn' = [conn EXCEPT ![c] = "silent"]
    /\ UNCHANGED <<pc, userId, msg, todo, hvars, activeUsers, activeCalls,
                   mutex, recv, ping, nEnv, crashed, deadline, mvars, caller, rvars>>

\* One period of the ticker of connection c passes: the read deadline is one
\* period nearer and the ticker fires (line 172). The ping of the period
\* before has been written by then.
Elapse(c) ==
    /\ ~crashed
    /\ conn[c] \in {"up", "silent", "broken"}
    /\ ping[c] # "write"
    /\ deadline[c] > 0
    /\ deadline' = [deadline EXCEPT ![c] = @ - 1]
    /\ ping' = [ping EXCEPT ![c] = IF @ = "sleep" THEN "write" ELSE @]
    /\ UNCHANGED <<conn, pc, userId, msg, todo, hvars, activeUsers, activeCalls,
                   mutex, recv, nEnv, crashed, mvars, caller, rvars>>

\* The pong handler of lines 181-184, run by c.ReadJSON when the peer answers
\* a ping.
Pong(c) ==
    /\ ~crashed
    /\ pc[c] = "read"
    /\ conn[c] = "up"
    /\ deadline' = [deadline EXCEPT ![c] = DeadlineTicks]
    /\ UNCHANGED <<conn, pc, userId, msg, todo, hvars, activeUsers, activeCalls,
                   mutex, recv, ping, nEnv, crashed, mvars, caller, rvars>>

\* c.ReadJSON(&msg) returns a timeout error when the read deadline has
\* passed: break out of the loop.
ReadTimeout(c) ==
    /\ ~crashed
    /\ pc[c] = "read"
    /\ conn[c] \in {"up", "silent", "broken"}
    /\ deadline[c] = 0
    /\ pc' = [pc EXCEPT ![c] = "cl_lock"]
    /\ UNCHANGED <<conn, userId, msg, todo, hvars, activeUsers, activeCalls,
                   mutex, recv, ping, nEnv, crashed, deadline, mvars, caller, rvars>>

----------------------------------------------------------------------------
\* The map race of broadcastActiveUsers. The range of line 542 reads
\* activeUsers without the mutex; when another task writes the map at that
\* moment the Go runtime may detect it ("concurrent map iteration and map
\* write") and abort the process, or the range goes on over the map as it is.

\* Task d is at a statement that writes activeUsers.
MapWriter(d) ==
    \/ pc[d] = "reg" /\ mutex = Free /\ activeUsers[userId[d]] = None
    \/ pc[d] = "ba_del" /\ mutex = Free
    \/ pc[d] = "cl_body" /\ mutex = d
    \/ /\ pc[d] = "stu_body" /\ mutex = d
       /\ activeUsers[Head(todo[d]).to] # None
       /\ ~WriteOk(activeUsers[Head(todo[d]).to])

\* Task c is at a statement that reads activeUsers without holding the mutex.
UnlockedReader(c) == pc[c] = "ba_next" /\ mutex # c

RaceFatal ==
    /\ ~crashed
    /\ \E c, d \in Conns : c # d /\ UnlockedReader(c) /\ MapWriter(d)
    /\ crashed' = TRUE
    /\ UNCHANGED <<conn, pc, userId, msg, todo, hvars, activeUsers, activeCalls,
                   mutex, recv, ping, nEnv, deadline, mvars, caller, rvars>>

----------------------------------------------------------------------------
\* The chat socket of package message: MessageHandler.HandleWebSocket,
\* message.go lines 123-247, one task per connection accepted at /ws of that
\* package. The database and the Redis channel are its collaborators.

\* Chat and sender identifiers a request can carry: "chat1" is a chat whose
\* members are the users of Ids, "chat9" parses as a UUID but is no chat,
\* "carol" parses as a UUID but is no member of the chat, "bad" does not parse.
ChatIds == {"chat1", "chat9", "bad"}

SenderIds == {"alice", "carol", "bad"}

Requests == [chatId : ChatIds, senderId : SenderIds, text : {"m1"}]

\* uuid.Parse succeeds.
IsUuid(x) == x # "bad"

\* h.db.Where("id = ?", req.ChatID).First(&chat) finds the chat.
ChatFound(r) == r.chatId = "chat1"

\* The membership loop of lines 195-201.
IsMember(r) == r.senderId \in Ids

\* A reply written to the sender with c.WriteJSON(fiber.Map{"message": text}).
Reply(text) == [type |-> "message", data |-> {text}, from |-> NoId]

\* No reply.
Silent == "<none>"

\* c.WriteJSON(fiber.Map{"message": text}) on the connection of the handler;
\* its error is not looked at.
WriteTo(c, text) ==
    recv' = [recv EXCEPT ![c] = IF text # Silent /\ WriteOk(c)
                                THEN Append(@, Reply(text)) ELSE @]

\* What the database holds about a request: whether the row of its sender
\* exists, whether the row of the other member of its chat exists, and whether
\* the Friends field of the sender lists that member.
Lookups ==
    {l \in [sender : BOOLEAN, receiver : BOOLEAN, isFriend : BOOLEAN] :
        l.isFriend => l.sender}

\* Lines 180-232: how the checks of request r end when the database holds l,
\* as the reply that is written and the statement that follows. Each of the
\* first five checks writes its error and continues the read loop. The
\* continue statements of the friendship loop (lines 218 and 229) continue
\* that inner loop only: after the error reply the handler goes on to create
\* the message.
Checks(r, l) ==
    IF ~IsUuid(r.chatId)
    THEN [reply |-> "Invalid chatId format", next |-> "read"]
    ELSE IF ~IsUuid(r.senderId)
    THEN [reply |-> "Invalid senderId format", next |-> "read"]
    ELSE IF ~ChatFound(r)
    THEN [reply |-> "Chat not found", next |-> "read"]
    ELSE IF ~IsMember(r)
    THEN [reply |-> "Sender is not a member of this chat", next |-> "read"]
    ELSE IF ~l.sender
    THEN [reply |-> "Sender not found", next |-> "read"]
    ELSE IF ~l.receiver
    THEN [reply |-> "Receiver not found", next |-> "create"]
    ELSE IF ~l.isFriend
    THEN [reply |-> "Users must be friends to send messages", next |-> "create"]
    ELSE [reply |-> Silent, next |-> "create"]

\* The rows the checks have looked at when the database holds l: the receiver
\* is looked up for a sender that was found, and isFriend is computed for a
\* receiver that was found.
Looked(l) ==
    [sender |-> l.sender, receiver |-> l.sender /\ l.receiver,
     isFriend |-> l.sender /\ l.receiver /\ l.isFriend]

\* The ways the checks of request r can end, over what the database can hold.
ValidateOutcomes(r) ==
    {[reply |-> Checks(r, l).reply, next |-> Checks(r, l).next,
      found |-> Looked(l)] : l \in Lookups}

\* MessageHandler.AddMessage, message.go lines 42-112: the statuses the REST
\* handler can answer request r with when the database holds l. Every failed
\* check returns: 400 for an identifier that is no UUID, 404 for a chat, a
\* sender or a receiver that is not found, 403 for a sender who is no member
\* or no friend of the other member. After the checks h.db.Create stores the
\* message and the handler publishes it and answers 200, or the create fails
\* and the handler answers 500.
AddMessageStatuses(r, l) ==
    IF ~IsUuid(r.chatId) THEN {400}
    ELSE IF ~IsUuid(r.senderId) THEN {400}
    ELSE IF ~ChatFound(r) THEN {404}
    ELSE IF ~l.sender THEN {404}
    ELSE IF ~IsMember(r) THEN {403}
    ELSE IF ~l.receiver THEN {404}
    ELSE IF ~l.isFriend THEN {403}
    ELSE {200, 500}

\* The user identifiers a chat socket can be opened with: the userId query
\* parameter, empty when the client gave none.
UserIDs == Ids \cup {NoId}

\* Lines 123-145: the socket is accepted with a userId query parameter of U.
\* With an empty userId the handler closes the socket and returns (lines
\* 125-128). Otherwise it writes the entry of userID in h.activeUsers (line
\* 129), then fetches the chats of the user: when that fails it closes the
\* socket and returns, the entry left as it is (lines 135-139); when it
\* succeeds the channels are subscribed to and the read loop begins.
MAccept(c, U) ==
    /\ ~crashed
    /\ conn[c] = "new"
    /\ \E u \in U :
          /\ userID' = [userID EXCEPT ![c] = u]
          /\ \/ /\ u = NoId
                /\ conn' = [conn EXCEPT ![c] = "closed"]
                /\ mpc' = [mpc EXCEPT ![c] = "done"]
                /\ UNCHANGED <<hActiveUsers, recv>>
             \/ /\ u # NoId
                /\ hActiveUsers' = hActiveUsers \cup {u}
                /\ conn' = [conn EXCEPT ![c] = "closed"]
                /\ mpc' = [mpc EXCEPT ![c] = "done"]
                /\ recv' = [recv EXCEPT ![c] = Append(@, Reply("Failed to fetch chats"))]
             \/ /\ u # NoId
                /\ hActiveUsers' = hActiveUsers \cup {u}
                /\ conn' = [conn EXCEPT ![c] = "up"]
                /\ mpc' = [mpc EXCEPT ![c] = "read"]
                /\ UNCHANGED recv
    /\ UNCHANGED <<pc, userId, msg, todo, hvars, activeUsers, activeCalls, mutex,
                   ping, nEnv, crashed, deadline, req, stored, published, found,
                   caller, rvars>>

\* Line 173: c.ReadJSON(&req) returns a request of R.
MRead(c, R) ==
    /\ ~crashed
    /\ mpc[c] = "read"
    /\ conn[c] = "up"
    /\ nEnv < MaxEnv
    /\ \E r \in R : req' = [req EXCEPT ![c] = r]
    /\ mpc' = [mpc EXCEPT ![c] = "validate"]
    /\ nEnv' = nEnv + 1
    /\ UNCHANGED <<conn, pc, userId, msg, todo, hvars, activeUsers, activeCalls,
                   mutex, recv, ping, crashed, deadline, stored, published, found,
                   userID, hActiveUsers, caller, rvars>>

\* Lines 173-177: c.ReadJSON(&req) returns an error; the handler deletes the
\* entry of userID from h.activeUsers, leaves the loop and returns, and the
\* connection is closed behind it.
MReadFail(c) ==
    /\ ~crashed
    /\ mpc[c] = "read"
    /\ conn[c] \in {"broken", "closed"}
    /\ hActiveUsers' = hActiveUsers \ {userID[c]}
    /\ mpc' = [mpc EXCEPT ![c] = "done"]
    /\ conn' = [conn EXCEPT ![c] = "closed"]
    /\ UNCHANGED <<pc, userId, msg, todo, hvars, activeUsers, activeCalls, mutex,
                   recv, ping, nEnv, crashed, deadline, req, stored, published,
                   found, userID, caller, rvars>>

\* Lines 180-232: the checks of the request.
MValidate(c) ==
    /\ ~crashed
    /\ mpc[c] = "validate"
    /\ \E o \in ValidateOutcomes(req[c]) :
          /\ WriteTo(c, o.reply)
          /\ mpc' = [mpc EXCEPT ![c] = o.next]
          /\ req' = [req EXCEPT ![c] = IF o.next = "read" THEN NoReq ELSE @]
          /\ found' = [found EXCEPT ![c] = IF o.next = "read" THEN NoFound
                                                             ELSE o.found]
    /\ UNCHANGED <<conn, pc, userId, msg, todo, hvars, activeUsers, activeCalls,
                   mutex, ping, nEnv, crashed, deadline, stored, published,
                   userID, hActiveUsers, caller, rvars>>

\* A create whose failure is reported to the sender and then ignored: the
\* handler goes on to publish.
MCreateThenPublish(c) ==
    /\ ~crashed
    /\ mpc[c] = "create"
    /\ \/ /\ stored' = Append(stored, req[c])
          /\ UNCHANGED recv
       \/ /\ WriteTo(c, "Failed to save message")
          /\ UNCHANGED stored
    /\ mpc' = [mpc EXCEPT ![c] = "publish"]
    /\ UNCHANGED <<conn, pc, userId, msg, todo, hvars, activeUsers, activeCalls,
                   mutex, ping, nEnv, crashed, deadline, req, published, found,
                   userID, hActiveUsers, caller, rvars>>

\* Lines 234-242: h.db.Create(&message) stores the message, or fails; on a
\* failure the error is written to the sender and the loop continues.
MCreate(c) ==
    /\ ~crashed
    /\ mpc[c] = "create"
    /\ \/ /\ stored' = Append(stored, req[c])
          /\ mpc' = [mpc EXCEPT ![c] = "publish"]
          /\ UNCHANGED <<recv, req, found>>
       \/ /\ WriteTo(c, "Failed to save message")
          /\ mpc' = [mpc EXCEPT ![c] = "read"]
          /\ req' = [req EXCEPT ![c] = NoReq]
          /\ found' = [found EXCEPT ![c] = NoFound]
          /\ UNCHANGED stored
    /\ UNCHANGED <<conn, pc, userId, msg, todo, hvars, activeUsers, activeCalls,
                   mutex, ping, nEnv, crashed, deadline, published, userID,
                   hActiveUsers, caller, rvars>>

\* Lines 244-245: the message is published to the channel of its chat.
MPublish(c) ==
    /\ ~crashed
    /\ mpc[c] = "publish"
    /\ published' = Append(published, req[c])
    /\ mpc' = [mpc EXCEPT ![c] = "read"]
    /\ req' = [req EXCEPT ![c] = NoReq]
    /\ found' = [found EXCEPT ![c] = NoFound]
    /\ UNCHANGED <<conn, pc, userId, msg, todo, hvars, activeUsers, activeCalls,
                   mutex, recv, ping, nEnv, crashed, deadline, stored, userID,
                   hActiveUsers, caller, rvars>>

\* The chat sockets alone: clients connect to /ws of package message as
\* "alice", send requests about the chat that exists, as a member or as a
\* stranger, and the first of them goes away.
ChatRequests == {r \in Requests : ChatFound(r) /\ IsUuid(r.senderId)}

MessageNext ==
    \/ \E c \in Conns : MAccept(c, {"alice"})
    \/ Break(1)
    \/ \E c \in Conns : MRead(c, ChatRequests)
    \/ \E c \in Conns : MReadFail(c)
    \/ \E c \in Conns : MValidate(c)
    \/ \E c \in Conns : MCreate(c)
    \/ \E c \in Conns : MPublish(c)

MessageSpec == Init /\ [][MessageNext]_vars

\* Connection c is at a statement that writes h.activeUsers: the assignment of
\* line 129 on entry, or the delete of line 174 after a failed read. Neither
\* is made under a lock.
HMapWriter(c) ==
    \/ conn[c] = "new"
    \/ mpc[c] = "read" /\ conn[c] \in {"broken", "closed"}

\* Two handlers write h.activeUsers at once: a data race on a Go map, which
\* the runtime may detect and abort the process on ("concurrent map writes").
MRaceFatal ==
    /\ ~crashed
    /\ \E c, d \in Conns : c # d /\ HMapWriter(c) /\ HMapWriter(d)
    /\ crashed' = TRUE
    /\ UNCHANGED <<conn, pc, userId, msg, todo, hvars, activeUsers, activeCalls,
                   mutex, recv, ping, nEnv, deadline, mvars, caller, rvars>>

\* The chat sockets as sessions: clients connect with any userId or with
\* none, send a request of a member about the chat that exists, and go away.
SessionRequests == {r \in ChatRequests : IsMember(r)}

SessionNext ==
    \/ \E c \in Conns : MAccept(c, UserIDs)
    \/ \E c \in Conns : Break(c)
    \/ \E c \in Conns : MRead(c, SessionRequests)
    \/ \E c \in Conns : MReadFail(c)
    \/ \E c \in Conns : MValidate(c)
    \/ \E c \in Conns : MCreate(c)
    \/ \E c \in Conns : MPublish(c)
    \/ MRaceFatal

SessionSpec == Init /\ [][SessionNext]_vars

\* MessageHandler.AddMessage, message.go lines 42-112, serving a request of R
\* on the goroutine of its HTTP request: the checks, then h.db.Create and the
\* Publish to the channel of the chat, and the answer.
AddMessage(R) ==
    /\ ~crashed
    /\ nEnv < MaxEnv
    /\ \E r \in R : \E l \in Lookups : \E s \in AddMessageStatuses(r, l) :
          /\ stored' = IF s = 200 THEN Append(stored, r) ELSE stored
          /\ published' = IF s = 200 THEN Append(published, r) ELSE published
          /\ rest' = [fn |-> "AddMessage", req |-> <<r, l>>,
                      resp |-> [status |-> s]]
    /\ nEnv' = nEnv + 1
    /\ UNCHANGED <<conn, pc, userId, msg, todo, hvars, activeUsers, activeCalls,
                   mutex, recv, ping, crashed, deadline, mpc, req, found, userID,
                   hActiveUsers, caller, notifications>>

\* The two ways to send a chat message side by side: the chat sockets of
\* MessageSpec and the REST handler, on requests about the chat that exists.
BothPathsNext ==
    \/ MessageNext
    \/ AddMessage(ChatRequests)

BothPathsSpec == Init /\ [][BothPathsNext]_vars

----------------------------------------------------------------------------
\* The REST handlers that reach the hub. Each runs on the goroutine of its
\* HTTP request, the emitter task of the model.

\* NotificationHandler.CreateNotification, notification.go lines 28-111.
\* Receivers a request can name: the users of Ids, "carol" who parses as a UUID
\* but is no user, and "bad" which does not parse.
Receivers == Ids \cup {"carol", "bad"}

\* The status the handler answers with: 400 for a receiverId that is no UUID
\* (line 43), 404 for an unknown receiver (line 49), 500 when h.db.Create
\* fails (line 74), 200 otherwise.
NotifyStatuses(r) ==
    IF ~IsUuid(r) THEN {400}
    ELSE IF r \notin Ids THEN {404}
    ELSE {500, 200}

\* The handler serves a request for receiver r of R up to its call of
\* ws.SendNotification, which it makes when its status is in P. The
\* notification is named by its arrival number (uuid.New() of line 63).
NotifyStep(R, P) ==
    /\ ~crashed
    /\ pc[Emitter] = "idle"
    /\ nEnv < MaxEnv
    /\ \E r \in R : \E st \in NotifyStatuses(r) :
          LET id == nEnv + 1
              m == SendNotification(r, id)
          IN  /\ rest' = [fn |-> "CreateNotification",
                          req |-> <<r, id>>,
                          resp |-> [status |-> st]]
              /\ notifications' = IF st = 200
                                  THEN Append(notifications,
                                              [id |-> id, userId |-> r])
                                  ELSE notifications
              /\ todo' = [todo EXCEPT
                            ![Emitter] = IF st \in P THEN EmitTodo(m) ELSE <<>>]
              /\ msg' = [msg EXCEPT ![Emitter] = IF st \in P THEN m ELSE NoMsg]
              /\ pc' = [pc EXCEPT
                          ![Emitter] = IF st \in P THEN "stu_lock" ELSE "idle"]
    /\ nEnv' = nEnv + 1
    /\ UNCHANGED <<conn, userId, hvars, activeUsers, activeCalls, mutex, recv,
                   ping, crashed, deadline, mvars, caller>>

\* A handler that pushes the notification although its row was not created.
CreateNotificationThenPush(R) == NotifyStep(R, {200, 500})

\* Lines 74-108: ws.SendNotification is called after h.db.Create succeeded.
CreateNotification(R) == NotifyStep(R, {200})

\* The Agora credentials of ws.go lines 16-17.
agoraAppID == "0ad1df7f5f9241e7bdccc8324d516f27"

\* strconv.ParseUint(userId, 10, 32) succeeds on the decimal identities.
Numeric == {"7", "42"}

\* The token the rtctokenbuilder2 library signs. With the 32-digit credentials
\* of lines 16-17 the builders return no error; the token is determined by
\* the builder called and its arguments.
BuildToken(builder, channel, uid, role) ==
    <<builder, agoraAppID, channel, uid, role>>

\* GetTokenForUser, ws.go lines 576-613: the role is always "publisher", a
\* numeric identity goes to BuildTokenWithUid and any other one to
\* BuildTokenWithUserAccount.
GetTokenForUser(userId_, channel) ==
    [token   |-> IF userId_ \in Numeric
                 THEN BuildToken("BuildTokenWithUid", channel, userId_,
                                 "publisher")
                 ELSE BuildToken("BuildTokenWithUserAccount", channel, userId_,
                                 "publisher"),
     appId   |-> agoraAppID,
     channel |-> channel,
     uid     |-> userId_,
     role    |-> "publisher"]

\* The bodies posted to SetupCall: one the BodyParser rejects, or the three
\* fields, each possibly empty.
SetupRequests ==
    [parsed : BOOLEAN,
     channel : Channels \cup {"", "7"},
     callerId : Ids \cup Numeric \cup {""},
     calleeId : Ids \cup Numeric \cup {""}]

\* A SetupCall that signs both tokens for the caller.
SetupCallOneUser(q) ==
    IF ~q.parsed \/ q.channel = "" \/ q.callerId = "" \/ q.calleeId = ""
    THEN [status |-> 400]
    ELSE [status  |-> 200,
          channel |-> q.channel,
          tokens  |-> [caller |-> GetTokenForUser(q.callerId, q.channel),
                       callee |-> GetTokenForUser(q.callerId, q.channel)]]

\* SetupCall, ws.go lines 68-114: the answer to body q.
SetupCall(q) ==
    IF ~q.parsed
    THEN [status |-> 400]
    ELSE IF q.channel = "" \/ q.callerId = "" \/ q.calleeId = ""
    THEN [status |-> 400]
    ELSE [status  |-> 200,
          channel |-> q.channel,
          tokens  |-> [caller |-> GetTokenForUser(q.callerId, q.channel),
                       callee |-> GetTokenForUser(q.calleeId, q.channel)]]

\* One request is served by SetupCall; the handler touches no state of the hub.
ServeSetupCall ==
    /\ ~crashed
    /\ nEnv < MaxEnv
    /\ \E q \in SetupRequests :
          rest' = [fn |-> "SetupCall", req |-> q, resp |-> SetupCall(q)]
    /\ nEnv' = nEnv + 1
    /\ UNCHANGED <<conn, userId, pc, msg, todo, hvars, activeUsers,
                   activeCalls, mutex, recv, ping, crashed, deadline, mvars,
                   caller, notifications>>

----------------------------------------------------------------------------
\* A step of the handler task of connection c.
HandlerStep(c) ==
    \/ ReadFail(c)
    \/ Register(c)
    \/ CallSet(c)
    \/ BaSnap(c)
    \/ BaNext(c)
    \/ BaWrite(c)
    \/ BaDel(c)
    \/ Lock(c)
    \/ Critical(c)
    \/ Close(c)

Envelopes == RegEnvelopes \cup MsgEnvelopes \cup CallEnvelopes

Next ==
    \/ \E c \in Conns : Accept(c)
    \/ \E c \in Conns : Break(c)
    \/ \E c \in Conns : Recv(c, Envelopes)
    \/ \E c \in Conns : HandlerStep(c)
    \/ RaceFatal

Spec == Init /\ [][Next]_vars

----------------------------------------------------------------------------
\* Well-behaved peers: the peer of connection c is the client of one user,
\* registers under that user's identity, and addresses the other users.
IdSeq == <<"alice", "bob">>

IdOf(c) == IdSeq[((c - 1) % Len(IdSeq)) + 1]

PeerEnvelopes(c) ==
    {NewUserAdd(IdOf(c))}
    \cup {AgoraSignal(IdOf(c), "call-request", t, ch) :
             t \in Ids \ {IdOf(c)}, ch \in Channels}

\* A client that registers once, as its user, when it has connected.
RegOnce(c) == IF userId[c] = NoId THEN {NewUserAdd(IdOf(c))} ELSE {}

PeerNext ==
    \/ \E c \in Conns : Accept(c)
    \/ \E c \in Conns : Break(c)
    \/ \E c \in Conns : Recv(c, PeerEnvelopes(c))
    \/ \E c \in Conns : HandlerStep(c)
    \/ RaceFatal

\* The Go scheduler runs every goroutine that can run: a handler that can take
\* a step eventually takes one. Nothing obliges a peer to connect, to send or
\* to go away, and nothing obliges the runtime to detect the race.
FairSpec == Init /\ [][PeerNext]_vars /\ \A c \in Conns : WF_vars(HandlerStep(c))

----------------------------------------------------------------------------
\* One user with several connections (tabs, reconnects): every peer registers
\* as "alice" and writes to "bob", who is not connected.
OneUserEnvelopes == {NewUserAdd("alice"), SendMessage("bob")}

OneUserNext ==
    \/ \E c \in Conns : Accept(c)
    \/ \E c \in Conns : Break(c)
    \/ \E c \in Conns : Recv(c, OneUserEnvelopes)
    \/ \E c \in Conns : ReadFail(c)
    \/ \E c \in Conns : Register(c)
    \/ \E c \in Conns : BaSnap(c)
    \/ \E c \in Conns : BaNext(c)
    \/ \E c \in Conns : BaWrite(c)
    \/ \E c \in Conns : BaDel(c)
    \/ \E c \in Conns : Lock(c)
    \/ \E c \in Conns : Critical(c)
    \/ \E c \in Conns : Close(c)
    \/ RaceFatal

OneUserSpec == Init /\ [][OneUserNext]_vars

----------------------------------------------------------------------------
\* One user with two tabs, in a call: every connection is a tab of "alice" and
\* sends "new-user-add" for her; a tab that has been written an event (it was
\* registered) requests a call with "bob" on the channel.
TabEnvelopes(c) ==
    {NewUserAdd("alice")}
    \cup (IF recv[c] # <<>>
          THEN {AgoraSignal("alice", "call-request", "bob", ch) : ch \in Channels}
          ELSE {})

TabsNext ==
    \/ \E c \in Conns : Accept(c)
    \/ \E c \in Conns : Break(c)
    \/ \E c \in Conns : Recv(c, TabEnvelopes(c))
    \/ \E c \in Conns : HandlerStep(c)
    \/ RaceFatal

TabsSpec == Init /\ [][TabsNext]_vars

----------------------------------------------------------------------------
\* Reconnects: every connection is a connection of "alice" (she reconnects
\* when her transport has failed) and sends "new-user-add" for her, while HTTP
\* handlers call SendCommentAdded for comments on her posts.
ReconnectCalls == {SendCommentAdded("alice", NoId, b) : b \in {"m1"}}

ReconnectNext ==
    \/ \E c \in Conns : Accept(c)
    \/ \E c \in Conns : Break(c)
    \/ \E c \in Conns : Recv(c, {NewUserAdd("alice")})
    \/ \E c \in Conns : ReadFail(c)
    \/ \E c \in Conns : Register(c)
    \/ \E c \in Conns : BaSnap(c)
    \/ \E c \in Conns : BaNext(c)
    \/ \E c \in Conns : BaWrite(c)
    \/ \E c \in Conns : BaDel(c)
    \/ \E c \in Conns : Lock(c)
    \/ \E c \in Conns : Critical(c)
    \/ \E c \in Conns : Close(c)
    \/ Emit(ReconnectCalls)
    \/ EmitterStep
    \/ RaceFatal

ReconnectSpec == Init /\ [][ReconnectNext]_vars

----------------------------------------------------------------------------
\* Ordered chat: a client registers once as its user and sends "send-message"
\* envelopes to the other users; the data of a message names the connection it
\* is sent on and its arrival number at the hub. Every transport works.
Stamp(c) == <<c, nEnv + 1>>

OrderEnvelopes(c) ==
    RegOnce(c) \cup {SendMessageWith(r, Stamp(c)) : r \in Ids \ {IdOf(c)}}

OrderNext ==
    \/ \E c \in Conns : Accept(c)
    \/ \E c \in Conns : ReadJSON(c, OrderEnvelopes(c))
    \/ \E c \in Conns : Switch(c)
    \/ \E c \in Conns : Register(c)
    \/ \E c \in Conns : BaSnap(c)
    \/ \E c \in Conns : BaNext(c)
    \/ \E c \in Conns : BaWrite(c)
    \/ \E c \in Conns : Lock(c)
    \/ \E c \in Conns : Critical(c)
    \/ RaceFatal

OrderSpec == Init /\ [][OrderNext]_vars

----------------------------------------------------------------------------
\* Notifications: clients register once, and HTTP clients post notifications
\* for any receiver. Every transport works.
NotifyNext ==
    \/ \E c \in Conns : Accept(c)
    \/ \E c \in Conns : Recv(c, RegOnce(c))
    \/ \E c \in Conns : Register(c)
    \/ \E c \in Conns : BaSnap(c)
    \/ \E c \in Conns : BaNext(c)
    \/ \E c \in Conns : BaWrite(c)
    \/ CreateNotification(Receivers)
    \/ EmitterStep
    \/ RaceFatal

NotifySpec == Init /\ [][NotifyNext]_vars

----------------------------------------------------------------------------
\* Call setup over HTTP: requests to SetupCall, one after another.
SetupNext == ServeSetupCall

SetupSpec == Init /\ [][SetupNext]_vars

----------------------------------------------------------------------------
\* Strangers: a client may register as its user, and may send "send-message"
\* and call-request envelopes to the other users whether it has registered or
\* not. Every transport works, so no entry of activeUsers is ever removed.
StrangerEnvelopes(c) ==
    {NewUserAdd(IdOf(c))}
    \cup {SendMessage(r) : r \in Ids \ {IdOf(c)}}
    \cup {AgoraSignal(IdOf(c), "call-request", t, ch) :
             t \in Ids \ {IdOf(c)}, ch \in Channels}

StrangerNext ==
    \/ \E c \in Conns : Accept(c)
    \/ \E c \in Conns : Recv(c, StrangerEnvelopes(c))
    \/ \E c \in Conns : Register(c)
    \/ \E c \in Conns : CallSet(c)
    \/ \E c \in Conns : BaSnap(c)
    \/ \E c \in Conns : BaNext(c)
    \/ \E c \in Conns : BaWrite(c)
    \/ \E c \in Conns : Lock(c)
    \/ \E c \in Conns : Critical(c)
    \/ RaceFatal

StrangerSpec == Init /\ [][StrangerNext]_vars

----------------------------------------------------------------------------
\* Directed relays: a client registers once as its user. The client of the
\* first connection calls the other users, and its transport may fail, so that
\* the disconnect cleanup of a call's initiator runs; the other clients send
\* "send-message" and "notification" envelopes addressed to the other users.
Notify(r) == [NoMsg EXCEPT !.type = "notification", !.receiverId = r]

DirectedEnvelopes(c) ==
    RegOnce(c)
    \cup (IF c = 1
          THEN {AgoraSignal(IdOf(c), "call-request", t, ch) :
                   t \in Ids \ {IdOf(c)}, ch \in Channels}
          ELSE UNION {{SendMessage(r), Notify(r)} : r \in Ids \ {IdOf(c)}})

DirectedNext ==
    \/ \E c \in Conns : Accept(c)
    \/ Break(1)
    \/ \E c \in Conns : Recv(c, DirectedEnvelopes(c))
    \/ \E c \in Conns : HandlerStep(c)
    \/ RaceFatal

DirectedSpec == Init /\ [][DirectedNext]_vars

----------------------------------------------------------------------------
\* An accepted call. "bob" is online: his client has connected on the second
\* connection, has registered, and has been written its presence event; nEnv
\* counts the envelopes read from then on. The client of "alice" connects on
\* the first connection, registers and calls "bob"; her transport may fail.
\* The client of "bob" accepts a call it has been rung for.
CalleeOnline ==
    /\ conn = [c \in Conns |-> IF c = 2 THEN "up" ELSE "new"]
    /\ pc = [c \in Tasks |-> IF c = 2 THEN "read" ELSE "idle"]
    /\ userId = [c \in Conns |-> IF c = 2 THEN "bob" ELSE NoId]
    /\ msg = [c \in Tasks |-> NoMsg]
    /\ todo = [c \in Tasks |-> <<>>]
    /\ userIds = [c \in Conns |-> {}]
    /\ seen = [c \in Conns |-> {}]
    /\ cur = [c \in Conns |-> NoCur]
    /\ ret = [c \in Conns |-> "read"]
    /\ activeUsers = [k \in Keys |-> IF k = "bob" THEN 2 ELSE None]
    /\ activeCalls = [ch \in Channels |-> Absent]
    /\ mutex = Free
    /\ recv = [c \in Conns |-> IF c = 2 THEN <<GetUsers({"bob"})>> ELSE <<>>]
    /\ ping = [c \in Conns |-> IF c = 2 THEN "sleep" ELSE "off"]
    /\ nEnv = 0
    /\ crashed = FALSE
    /\ deadline = [c \in Conns |-> IF c = 2 THEN DeadlineTicks ELSE 0]
    /\ mpc = [c \in Conns |-> "idle"]
    /\ req = [c \in Conns |-> NoReq]
    /\ stored = <<>>
    /\ published = <<>>
    /\ found = [c \in Conns |-> NoFound]
    /\ userID = [c \in Conns |-> NoId]
    /\ hActiveUsers = {}
    /\ caller = [ch \in Channels |-> None]
    /\ notifications = <<>>
    /\ rest = NoRest

AcceptedEnvelopes(c) ==
    IF c = 1
    THEN RegOnce(c)
         \cup {AgoraSignal("alice", "call-request", "bob", ch) : ch \in Channels}
    ELSE IF c = 2
    THEN {AgoraSignal("bob", "call-accepted", "alice", ch) :
             ch \in {x \in Channels :
                        \E i \in 1..Len(recv[c]) :
                           recv[c][i] = [type |-> "call-request", data |-> {x},
                                         from |-> "alice"]}}
    ELSE {}

AcceptedNext ==
    \/ \E c \in Conns : Accept(c)
    \/ Break(1)
    \/ \E c \in Conns : Recv(c, AcceptedEnvelopes(c))
    \/ \E c \in Conns : HandlerStep(c)
    \/ \E t \in Tokeners : TokenStep(t)
    \/ RaceFatal

\* The scheduler runs every handler and every token goroutine that can run.
AcceptedSpec ==
    /\ CalleeOnline
    /\ [][AcceptedNext]_vars
    /\ \A c \in Conns : WF_vars(HandlerStep(c))
    /\ \A t \in Tokeners : WF_vars(TokenStep(t))

----------------------------------------------------------------------------
\* Fan-out from the HTTP side: the peers register once, and HTTP handlers call
\* SendPostCreated and SendStoryCreated with every list of followers up to
\* MaxList. The transport of the first connection may fail (the connections are
\* interchangeable); its handler, blocked in c.ReadJSON, has not yet seen the
\* failure while the fan-out runs, so that the fan-out meets the dead handle.
FollowerLists ==
    UNION {[1..n -> Ids] : n \in 0..MaxList}

FanOutCalls ==
    {SendPostCreated(f, "post1") : f \in FollowerLists}
    \cup {SendStoryCreated(f, "story1") : f \in FollowerLists}

FanOutNext ==
    \/ \E c \in Conns : Accept(c)
    \/ Break(1)
    \/ \E c \in Conns : Recv(c, RegOnce(c))
    \/ \E c \in Conns : Register(c)
    \/ \E c \in Conns : BaSnap(c)
    \/ \E c \in Conns : BaNext(c)
    \/ \E c \in Conns : BaWrite(c)
    \/ \E c \in Conns : BaDel(c)
    \/ Emit(FanOutCalls)
    \/ EmitterStep
    \/ RaceFatal

FanOutSpec == Init /\ [][FanOutNext]_vars

----------------------------------------------------------------------------
\* Chat relay: a client registers once as its user and sends "send-message"
\* envelopes addressed to the other users; every transport works.
ChatEnvelopes(c) ==
    RegOnce(c)
    \cup {SendMessageWith(r, b) : r \in Ids \ {IdOf(c)}, b \in Bodies}

ChatNext ==
    \/ \E c \in Conns : Accept(c)
    \/ \E c \in Conns : ReadJSON(c, ChatEnvelopes(c))
    \/ \E c \in Conns : Switch(c)
    \/ \E c \in Conns : Register(c)
    \/ \E c \in Conns : BaSnap(c)
    \/ \E c \in Conns : BaNext(c)
    \/ \E c \in Conns : BaWrite(c)
    \/ \E c \in Conns : Lock(c)
    \/ \E c \in Conns : Critical(c)
    \/ RaceFatal

ChatSpec == Init /\ [][ChatNext]_vars

----------------------------------------------------------------------------
\* Stale handle: the chat relay again, where the transport of the first
\* connection may fail at any moment (the connections are interchangeable), so
\* that a "send-message" can find its receiver registered with a dead handle.
StaleEnvelopes(c) ==
    RegOnce(c) \cup {SendMessage(r) : r \in Ids \ {IdOf(c)}}

StaleNext ==
    \/ \E c \in Conns : Accept(c)
    \/ Break(1)
    \/ \E c \in Conns : ReadJSON(c, StaleEnvelopes(c))
    \/ \E c \in Conns : Switch(c)
    \/ \E c \in Conns : ReadFail(c)
    \/ \E c \in Conns : Register(c)
    \/ \E c \in Conns : BaSnap(c)
    \/ \E c \in Conns : BaNext(c)
    \/ \E c \in Conns : BaWrite(c)
    \/ \E c \in Conns : BaDel(c)
    \/ \E c \in Conns : Lock(c)
    \/ \E c \in Conns : Critical(c)
    \/ \E c \in Conns : Close(c)
    \/ RaceFatal

StaleSpec == Init /\ [][StaleNext]_vars

----------------------------------------------------------------------------
\* Malformed input: clients register once and send relay envelopes that lack a
\* required field; every transport works.
RelayTypes ==
    {"send-message", "notification", "post-created", "post-reaction",
     "comment-added", "comment-reaction", "story-created", "agora-signal"}

MalformedEnvelopes ==
    {[NoMsg EXCEPT !.type = t, !.body = "m1"] : t \in RelayTypes}
    \cup {AgoraSignal(u, "call-request", t, "ch1") : u \in Ids, t \in {Missing, NoId}}
    \cup {AgoraSignal(u, Missing, t, "ch1") : u \in Ids, t \in Ids}

DropNext ==
    \/ \E c \in Conns : Accept(c)
    \/ \E c \in Conns : ReadJSON(c, RegOnce(c) \cup MalformedEnvelopes)
    \/ \E c \in Conns : Switch(c)
    \/ \E c \in Conns : Register(c)
    \/ \E c \in Conns : BaSnap(c)
    \/ \E c \in Conns : BaNext(c)
    \/ \E c \in Conns : BaWrite(c)
    \/ RaceFatal

DropSpec == Init /\ [][DropNext]_vars

\* The same clients, whose frames may also fail to decode and whose transports
\* may fail.
DecodeNext ==
    \/ \E c \in Conns : Accept(c)
    \/ \E c \in Conns : Break(c)
    \/ \E c \in Conns : ReadJSON(c, RegOnce(c) \cup MalformedEnvelopes)
    \/ \E c \in Conns : ReadUndecodable(c)
    \/ \E c \in Conns : Switch(c)
    \/ \E c \in Conns : ReadFail(c)
    \/ \E c \in Conns : Register(c)
    \/ \E c \in Conns : BaSnap(c)
    \/ \E c \in Conns : BaNext(c)
    \/ \E c \in Conns : BaWrite(c)
    \/ \E c \in Conns : BaDel(c)
    \/ \E c \in Conns : Lock(c)
    \/ \E c \in Conns : Critical(c)
    \/ \E c \in Conns : Close(c)
    \/ RaceFatal

DecodeSpec == Init /\ [][DecodeNext]_vars

----------------------------------------------------------------------------
\* Posts, stories and comments: clients register once and send "post-created",
\* "story-created" and "comment-added" envelopes, and HTTP handlers call
\* SendCommentAdded.
FeedEnvelopes ==
    {PostCreated(JsonList(f), "m1") : f \in FollowerLists}
    \cup {StoryCreated(JsonList(f), "m1") : f \in FollowerLists}
    \cup {CommentAdded(po, pa, "m1") : po \in Ids, pa \in Ids \cup {Missing, NoId}}

FeedCalls ==
    {SendCommentAdded(po, pa, "m1") : po \in Ids, pa \in Ids \cup {NoId}}

FeedNext ==
    \/ \E c \in Conns : Accept(c)
    \/ \E c \in Conns : Break(c)
    \/ \E c \in Conns : ReadJSON(c, RegOnce(c) \cup FeedEnvelopes)
    \/ \E c \in Conns : Switch(c)
    \/ \E c \in Conns : ReadFail(c)
    \/ \E c \in Conns : Register(c)
    \/ \E c \in Conns : BaSnap(c)
    \/ \E c \in Conns : BaNext(c)
    \/ \E c \in Conns : BaWrite(c)
    \/ \E c \in Conns : BaDel(c)
    \/ \E c \in Conns : Lock(c)
    \/ \E c \in Conns : Critical(c)
    \/ \E c \in Conns : Close(c)
    \/ Emit(FeedCalls)
    \/ EmitterStep
    \/ RaceFatal

FeedSpec == Init /\ [][FeedNext]_vars

----------------------------------------------------------------------------
\* Liveness supervision: clients register once; a peer may fall silent or its
\* transport may fail; time passes, the heartbeat goroutines ping, live peers
\* answer with pongs.
SilentNext ==
    \/ \E c \in Conns : Accept(c)
    \/ \E c \in Conns : Silence(c)
    \/ \E c \in Conns : Break(c)
    \/ \E c \in Conns : Recv(c, RegOnce(c))
    \/ \E c \in Conns : ReadFail(c)
    \/ \E c \in Conns : ReadTimeout(c)
    \/ \E c \in Conns : Register(c)
    \/ \E c \in Conns : BaSnap(c)
    \/ \E c \in Conns : BaNext(c)
    \/ \E c \in Conns : BaWrite(c)
    \/ \E c \in Conns : BaDel(c)
    \/ \E c \in Conns : Lock(c)
    \/ \E c \in Conns : Critical(c)
    \/ \E c \in Conns : Close(c)
    \/ \E c \in Conns : Elapse(c)
    \/ \E c \in Conns : PingWrite(c)
    \/ \E c \in Conns : Pong(c)
    \/ RaceFatal

\* Time passes for every connection, and the scheduler runs every goroutine
\* that can run: the handler (a timed-out read included) and the heartbeat
\* goroutine. Nothing obliges a peer to do anything.
SilentSpec ==
    /\ Init
    /\ [][SilentNext]_vars
    /\ \A c \in Conns :
          /\ WF_vars(HandlerStep(c) \/ ReadTimeout(c))
          /\ WF_vars(PingWrite(c))
          /\ WF_vars(Elapse(c))

----------------------------------------------------------------------------
\* The heartbeat goroutines run beside the handlers.
PingNext ==
    \/ PeerNext
    \/ \E c \in Conns : PingTick(c)
    \/ \E c \in Conns : PingWrite(c)

PingSpec == Init /\ [][PingNext]_vars

\* The scheduler runs the handlers and the heartbeat goroutines, and every
\* ticker goes on firing.
FairPingSpec ==
    /\ Init
    /\ [][PingNext]_vars
    /\ \A c \in Conns :
          /\ WF_vars(HandlerStep(c))
          /\ WF_vars(PingTick(c) \/ PingWrite(c))

----------------------------------------------------------------------------
\* Predicates of the properties.

\* Handle c is stored under some key, and its transport works.
IsRegUp(c) == conn[c] = "up" /\ \E k \in Keys : activeUsers[k] = c

\* A "get-users" event with the set S has been written to handle c.
Told(c, S) == \E i \in 1..Len(recv[c]) : recv[c][i] = GetUsers(S)

\* A "get-users" event whose data leaves out identity u has been written to c.
ToldWithout(c, u) ==
    \E i \in 1..Len(recv[c]) :
        recv[c][i].type = "get-users" /\ u \notin recv[c][i].data

\* Handle c was written the "call-request" of initiator u for channel ch.
CalledBy(c, u, ch) ==
    \E i \in 1..Len(recv[c]) :
        recv[c][i] = [type |-> "call-request", data |-> {ch}, from |-> u]

\* Handle c was written an event that tells the end of a call on channel ch.
ToldCallOver(c, ch) ==
    \E i \in 1..Len(recv[c]) :
        /\ recv[c][i].type \in {"call-ended", "channel-signal", "user-left"}
        /\ recv[c][i].data = {ch}

\* The handler of c is inside a WriteJSON on handle h.
HandlerWrites(c, h) ==
    \/ pc[c] = "ba_write" /\ cur[c].h = h
    \/ pc[c] = "stu_body" /\ activeUsers[Head(todo[c]).to] = h
    \/ pc[c] = "btc_body" /\ \E k \in Registered \ {userId[c]} : activeUsers[k] = h

\* The tasks that are inside a write to handle h.
Writers(h) ==
    {<<"handler", c>> : c \in {x \in Conns : HandlerWrites(x, h)}}
    \cup (IF ping[h] = "write" THEN {<<"ping", h>>} ELSE {})

----------------------------------------------------------------------------
\* C1. activeUsers is a map, so it holds one entry per identity; and the handle
\* stored under an identity is only ever set when the identity has no entry,
\* by the "new-user-add" of the connection that handle belongs to: a
\* "new-user-add" for an identity that has an entry never changes its handle.
C1_EntrySetOnlyByOwnRegistration ==
    [][\A k \in Keys :
          (activeUsers'[k] # activeUsers[k] /\ activeUsers'[k] # None)
          => /\ activeUsers[k] = None
             /\ pc[activeUsers'[k]] = "reg"
             /\ userId[activeUsers'[k]] = k]_vars

\* Connection d sent "new-user-add" for an identity held by the live
\* connection c, and c's entry is still there.
C1_Witness ==
    \E c, d \in Conns :
        /\ c # d
        /\ conn[c] = "up" /\ conn[d] = "up"
        /\ pc[d] = "read"
        /\ userId[d] # NoId
        /\ activeUsers[userId[d]] = c
        /\ userId[c] = userId[d]

\* C2. A "new-user-add" for an identity that another live connection holds is
\* rejected: the connection that sent it is closed or is written a rejection.
C2_DuplicateRejected ==
    [][\A c \in Conns :
          ( /\ pc[c] = "reg"
            /\ pc'[c] # "reg"
            /\ activeUsers[userId[c]] \notin {None, c}
            /\ conn[activeUsers[userId[c]]] = "up" )
          => \/ conn'[c] = "closed"
             \/ Len(recv'[c]) > Len(recv[c])]_vars

\* C3. After a change of the membership of activeUsers, every connection that
\* is registered is eventually written a "get-users" event with the full set of
\* registered identities (unless the membership changes again, the connection
\* leaves, or the process is gone).
C3_PresenceReachesAll ==
    \A c \in Conns : \A S \in SUBSET Ids :
        (Registered = S /\ IsRegUp(c))
        ~> (Told(c, S) \/ Registered # S \/ ~IsRegUp(c) \/ crashed)

\* C4. When the read of a registered connection fails, its entry is removed and
\* every connection that stays registered is eventually written a "get-users"
\* event that leaves its identity out.
C4_DepartureBroadcast ==
    \A c, d \in Conns : \A u \in Ids :
        (c # d /\ pc[c] = "cl_lock" /\ userId[c] = u /\ activeUsers[u] = c)
        ~> \/ crashed
           \/ /\ activeUsers[u] # c
              /\ (~IsRegUp(d) \/ ToldWithout(d, u) \/ activeUsers[u] # None)

\* C5. When a connection closes while its identity is the recorded initiator of
\* a call, the other party of the call (the connection that was written the
\* call-request) is eventually written an event that tells the call is over.
C5_PeerToldCallEnded ==
    \A c, d \in Conns : \A ch \in Channels : \A u \in Ids :
        ( /\ c # d
          /\ pc[c] = "cl_body" /\ userId[c] = u /\ activeCalls[ch] = u
          /\ CalledBy(d, u, ch) /\ IsRegUp(d) )
        ~> (crashed \/ ~IsRegUp(d) \/ ToldCallOver(d, ch))

\* C6. The disconnect cleanup never blocks: no handler waits for the mutex
\* while holding it.
C6_CleanupNeverBlocks ==
    \A c \in Conns : ~(pc[c] = "btc_lock" /\ mutex = c)

\* C7. No task is inside a write to a handle while it holds the mutex.
C7_NoWriteUnderMutex ==
    \A c \in Conns : \A h \in Conns : HandlerWrites(c, h) => mutex # c

\* C8. No task reads activeUsers without the mutex while another task is at a
\* write of it.
C8_MapAccessUnderMutex ==
    \A c, d \in Conns : (c # d /\ UnlockedReader(c)) => ~MapWriter(d)

\* C9. At no time are two writes to the same handle in progress.
C9_WritesSerialized ==
    \A h \in Conns : Cardinality(Writers(h)) <= 1

\* C10. sendToUser for an identity that has no entry writes to no handle,
\* leaves activeUsers, activeCalls and every connection as they are, and the
\* calling handler goes on with its loop.
C10_SendToAbsentIsNoOp ==
    [][\A c \in Conns :
          ( /\ pc[c] = "stu_body" /\ mutex = c
            /\ pc'[c] # "stu_body"
            /\ activeUsers[Head(todo[c]).to] = None )
          => /\ recv' = recv
             /\ activeUsers' = activeUsers
             /\ activeCalls' = activeCalls
             /\ conn' = conn
             /\ mutex' = Free
             /\ pc'[c] \in {"read", "stu_lock"}]_vars

\* A registered connection with a working transport is inside sendToUser for
\* the receiverId of a "send-message" that has no entry.
C10_Witness ==
    \E c \in Conns :
        /\ pc[c] = "stu_body" /\ mutex = c
        /\ Head(todo[c]).ev.type = "receive-message"
        /\ activeUsers[Head(todo[c]).to] = None
        /\ IsRegUp(c)

\* C11. A call of SendPostCreated or SendStoryCreated makes one sendToUser for
\* every position of its list, in order; each of them writes the event to the
\* target's handle when the target is registered with a working handle, and
\* whatever its outcome (no entry, failed write, written) the emitter goes on
\* with the rest of the list and returns after the last one.
C11_FanOutRunsToEnd ==
    [][/\ (pc[Emitter] = "idle" /\ msg'[Emitter] # NoMsg)
          => LET f == msg'[Emitter].followers.items
             IN  /\ Len(todo'[Emitter]) = Len(f)
                 /\ \A i \in 1..Len(f) :
                       /\ todo'[Emitter][i].to = f[i]
                       /\ todo'[Emitter][i].ev.type =
                            (IF msg'[Emitter].type = "SendPostCreated"
                             THEN "new-post" ELSE "new-story")
                       /\ todo'[Emitter][i].ev.data = {msg'[Emitter].body}
       /\ (pc[Emitter] = "stu_body" /\ pc'[Emitter] # "stu_body")
          => LET d == Head(todo[Emitter])
                 h == activeUsers[d.to]
             IN  /\ todo'[Emitter] = Tail(todo[Emitter])
                 /\ pc'[Emitter] = (IF Tail(todo[Emitter]) = <<>> THEN "idle"
                                    ELSE "stu_lock")
                 /\ (h # None /\ WriteOk(h))
                    => recv'[h] = Append(recv[h], d.ev)]_vars

\* The emitter has passed a target that is not registered, or one whose write
\* failed, and is inside sendToUser for the next target of its list, which is
\* registered with a working handle.
C11_Witness ==
    /\ pc[Emitter] = "stu_body"
    /\ Len(msg[Emitter].followers.items) = 2
    /\ Len(todo[Emitter]) = 1
    /\ activeUsers[msg[Emitter].followers.items[1]] = None
    /\ activeUsers[Head(todo[Emitter]).to] # None
    /\ WriteOk(activeUsers[Head(todo[Emitter]).to])

\* C12. A "send-message" envelope with a receiverId makes exactly one
\* sendToUser call, for that receiverId; when the receiver is registered with a
\* working handle other than the sender's connection, that call writes one
\* "receive-message" event with the envelope's data to the receiver's handle and
\* writes nothing to any other handle, the sender's included.
C12_MessageToReceiverOnly ==
    [][\A c \in Conns :
          /\ ( /\ pc[c] = "switch"
               /\ pc'[c] # "switch"
               /\ msg[c].type = "send-message"
               /\ msg[c].receiverId # Missing )
             => /\ Len(todo'[c]) = 1
                /\ todo'[c][1].to = msg[c].receiverId
                /\ pc'[c] = "stu_lock"
          /\ ( /\ pc[c] = "stu_body"
               /\ pc'[c] # "stu_body"
               /\ msg[c].type = "send-message"
               /\ activeUsers[msg[c].receiverId] \notin {None, c}
               /\ WriteOk(activeUsers[msg[c].receiverId]) )
             => LET h == activeUsers[msg[c].receiverId]
                IN  /\ recv'[h] = Append(recv[h],
                                         [type |-> "receive-message",
                                          data |-> {msg[c].body},
                                          from |-> NoId])
                    /\ \A x \in Conns \ {h} : recv'[x] = recv[x]
                    /\ pc'[c] = "read"]_vars

\* The connection registered as "alice" is inside sendToUser for its
\* "send-message" to "bob", who is registered on another connection with a
\* working handle.
C12_Witness ==
    \E c \in Conns :
        /\ pc[c] = "stu_body"
        /\ msg[c].type = "send-message"
        /\ activeUsers["alice"] = c
        /\ msg[c].receiverId = "bob"
        /\ activeUsers["bob"] \notin {None, c}
        /\ WriteOk(activeUsers["bob"])

\* C13. When the write of sendToUser to a registered target's handle fails,
\* that handle is closed and the target's entry is deleted; every other entry,
\* the caller's included, stays as it is, nothing is written to any handle,
\* and the caller goes on: back to its read loop or to its next delivery.
C13_FailedWriteRemovesTarget ==
    [][\A c \in Conns :
          ( /\ pc[c] = "stu_body"
            /\ pc'[c] # "stu_body"
            /\ activeUsers[Head(todo[c]).to] # None
            /\ ~WriteOk(activeUsers[Head(todo[c]).to]) )
          => LET to == Head(todo[c]).to
                 h == activeUsers[to]
             IN  /\ conn'[h] = "closed"
                 /\ \A x \in Conns \ {h} : conn'[x] = conn[x]
                 /\ activeUsers'[to] = None
                 /\ \A k \in Keys \ {to} : activeUsers'[k] = activeUsers[k]
                 /\ activeCalls' = activeCalls
                 /\ recv' = recv
                 /\ pc'[c] \in {"read", "stu_lock"}]_vars

\* A registered connection with a working transport is inside sendToUser for
\* another identity, which is registered with a handle whose transport failed.
C13_Witness ==
    \E c \in Conns :
        /\ pc[c] = "stu_body"
        /\ IsRegUp(c)
        /\ activeUsers[userId[c]] = c
        /\ Head(todo[c]).to # userId[c]
        /\ activeUsers[Head(todo[c]).to] \notin {None, c}
        /\ conn[activeUsers[Head(todo[c]).to]] = "broken"

\* C14. The switch drops a relay envelope that lacks a required field: it makes
\* no sendToUser call and writes no event, leaves activeUsers, activeCalls and
\* every connection as they are, and the handler is back at c.ReadJSON for the
\* next envelope.
C14_MalformedDropped ==
    [][\A c \in Conns :
          (pc[c] = "switch" /\ pc'[c] # "switch" /\ Malformed(msg[c]))
          => /\ pc'[c] = "read"
             /\ todo'[c] = <<>>
             /\ recv' = recv
             /\ activeUsers' = activeUsers
             /\ activeCalls' = activeCalls
             /\ conn' = conn
             /\ userId' = userId]_vars

\* A registered connection with a working transport has read a relay envelope
\* that lacks a required field and is at the switch.
C14_Witness ==
    \E c \in Conns :
        /\ pc[c] = "switch"
        /\ Malformed(msg[c])
        /\ IsRegUp(c)
        /\ activeUsers[userId[c]] = c

\* C15. A frame that fails to decode does not end the connection: a handler
\* leaves its read loop for the disconnect cleanup only when a read on its
\* transport has failed.
C15_DecodeFailureKeepsOpen ==
    [][\A c \in Conns :
          (pc[c] = "read" /\ pc'[c] = "cl_lock")
          => conn[c] \in {"broken", "closed"}]_vars

\* C16. For a "post-created" (resp. "story-created") envelope whose followers
\* field is a JSON list, the switch makes a sendToUser call for every follower
\* of the list that is registered with a working handle, with a "new-post"
\* (resp. "new-story") event that carries the envelope's post (resp. story).
C16_PostCreatedFansOut ==
    [][\A c \in Conns :
          ( /\ pc[c] = "switch"
            /\ pc'[c] # "switch"
            /\ msg[c].type \in {"post-created", "story-created"}
            /\ msg[c].followers.dyn # "nil" )
          => \A i \in 1..Len(msg[c].followers.items) :
                ( /\ activeUsers[msg[c].followers.items[i]] # None
                  /\ WriteOk(activeUsers[msg[c].followers.items[i]]) )
                => \E j \in 1..Len(todo'[c]) :
                   /\ todo'[c][j].to = msg[c].followers.items[i]
                   /\ todo'[c][j].ev.type =
                        (IF msg[c].type = "post-created" THEN "new-post"
                         ELSE "new-story")
                   /\ todo'[c][j].ev.data = {msg[c].body}]_vars

\* The deliveries of type t to identity k among the sendToUser calls ds.
Sends(ds, t, k) == {j \in 1..Len(ds) : ds[j].to = k /\ ds[j].ev.type = t}

\* A comment operation m (envelope or SendCommentAdded call) whose sendToUser
\* calls are ds: one "new-comment" to postOwner, and a "new-reply" to
\* parentOwner exactly when parentOwner is present and is not postOwner.
CommentRule(m, ds) ==
    /\ Cardinality(Sends(ds, "new-comment", m.postOwner)) = 1
    /\ \A k \in Keys :
          (Sends(ds, "new-reply", k) # {})
          <=> (k = m.parentOwner /\ k # NoId /\ k # m.postOwner)

\* C17. For a "comment-added" envelope with a postOwner and for a call of
\* SendCommentAdded, postOwner is sent one "new-comment" and a "new-reply" is
\* sent to parentOwner if and only if parentOwner is present and distinct from
\* postOwner.
C17_ReplyOnlyToDistinctParent ==
    [][/\ \A c \in Conns :
             ( /\ pc[c] = "switch"
               /\ pc'[c] # "switch"
               /\ msg[c].type = "comment-added"
               /\ msg[c].postOwner # Missing )
             => CommentRule(msg[c], todo'[c])
       /\ ( /\ pc[Emitter] = "idle"
            /\ msg'[Emitter].type = "SendCommentAdded" )
          => CommentRule(msg'[Emitter], todo'[Emitter])]_vars

\* C18. A registered connection whose peer has fallen silent (no frames, no
\* pongs) is eventually closed and its entry removed, through the expiry of
\* its read deadline.
C18_SilentPeerClosed ==
    \A c \in Conns :
        (conn[c] = "silent" /\ activeUsers[userId[c]] = c)
        ~> (crashed \/ (conn[c] = "closed" /\ activeUsers[userId[c]] # c))

\* C19. In the hub, every "receive-message" event that has been written to a
\* handle carries a message that is a row of the messages table: the hub's
\* "send-message" case stores the message before it relays it.
C19_RelayedWasPersisted ==
    \A c \in Conns : \A i \in 1..Len(recv[c]) :
        recv[c][i].type = "receive-message"
        => \E j \in 1..Len(stored) : stored[j].text \in recv[c][i].data

\* C20. In message.HandleWebSocket, when h.db.Create fails nothing is
\* published, the error is written to the sender's connection and to no other,
\* no connection is closed and the handler is back at c.ReadJSON; and at all
\* times every published message is a stored one.
C20_SaveFailureNotPublished ==
    /\ [][\A c \in Conns :
             (mpc[c] = "create" /\ mpc'[c] # "create" /\ stored' = stored)
             => /\ published' = published
                /\ mpc'[c] = "read"
                /\ conn' = conn
                /\ recv'[c] = (IF WriteOk(c)
                               THEN Append(recv[c], Reply("Failed to save message"))
                               ELSE recv[c])
                /\ \A x \in Conns \ {c} : recv'[x] = recv[x]]_vars
    /\ [](\A i \in 1..Len(published) :
             \E j \in 1..Len(stored) : stored[j] = published[i])

\* A chat socket whose last save failed: the error has been written to it,
\* nothing has been stored or published, it is open and at c.ReadJSON, and
\* another chat socket is open and was written nothing.
C20_Witness ==
    \E c, d \in Conns :
        /\ c # d
        /\ mpc[c] = "read" /\ conn[c] = "up"
        /\ mpc[d] = "read" /\ conn[d] = "up" /\ recv[d] = <<>>
        /\ recv[c] # <<>>
        /\ recv[c][Len(recv[c])] = Reply("Failed to save message")
        /\ stored = <<>> /\ published = <<>>

----------------------------------------------------------------------------
\* Handler c leaves the critical section of an "agora-signal" whose action is
\* one of A and whose channel is ch.
CallStep(c, A, ch) ==
    /\ pc[c] = "call_set"
    /\ pc'[c] # "call_set"
    /\ msg[c].action \in A
    /\ msg[c].channel = ch

\* Handler c leaves the range over activeCalls of its disconnect cleanup.
CleanupStep(c) == pc[c] = "cl_calls" /\ pc'[c] # "cl_calls"

\* The handler of connection c has finished its disconnect cleanup.
CleanedUp(c) == pc[c] \in {"close", "done"}

\* C21. The entry of a channel in activeCalls is written only by a
\* "call-request" for that channel, with the userId of the envelope; it is
\* removed only by a "call-ended" or "call-rejected" for that channel or by the
\* disconnect cleanup of the connection that sent the "call-request"; and no
\* entry is left when that connection has finished its cleanup.
C21_CallEntryLifetime ==
    /\ [][\A ch \in Channels :
             /\ (activeCalls'[ch] # Absent /\ activeCalls'[ch] # activeCalls[ch])
                => \E c \in Conns :
                      /\ CallStep(c, {"call-request"}, ch)
                      /\ activeCalls'[ch] = msg[c].userId
             /\ (activeCalls[ch] # Absent /\ activeCalls'[ch] = Absent)
                => \/ \E c \in Conns :
                         CallStep(c, {"call-ended", "call-rejected"}, ch)
                   \/ CleanupStep(caller[ch])]_vars
    /\ [](\A ch \in Channels :
             activeCalls[ch] # Absent => ~CleanedUp(caller[ch]))

\* C22. When the handle of a connection was closed and its entry removed by a
\* failed delivery, the delete of that connection's own disconnect cleanup
\* changes nothing in activeUsers, and the cleanup goes on.
C22_SecondRemovalIsNoOp ==
    [][\A c \in Conns :
          ( /\ pc[c] = "cl_body"
            /\ pc'[c] # "cl_body"
            /\ conn[c] = "closed"
            /\ activeUsers[userId[c]] # c )
          => /\ activeUsers' = activeUsers
             /\ pc'[c] = "cl_calls"]_vars

\* The positions of the "receive-message" events written to handle h.
Messages(h) == {i \in 1..Len(recv[h]) : recv[h][i].type = "receive-message"}

\* The stamp of the message at position i of recv[h].
StampAt(h, i) == CHOOSE b \in recv[h][i].data : TRUE

\* C23. The "receive-message" events one handle was written for the messages
\* of one sending connection are in the order in which the hub read those
\* messages from that connection.
C23_ArrivalOrderKept ==
    \A h \in Conns : \A i, j \in Messages(h) :
        (i < j /\ StampAt(h, i)[1] = StampAt(h, j)[1])
        => StampAt(h, i)[2] < StampAt(h, j)[2]

\* A handle has been written two messages of the same sending connection.
C23_Witness ==
    \E h \in Conns : \E i, j \in Messages(h) :
        /\ i < j
        /\ StampAt(h, i)[1] = StampAt(h, j)[1]
        /\ activeUsers[IdOf(h)] = h

\* C24. When the handle of a connection has been closed, by its own handler
\* or by a failed write of another task, both tasks of the connection end:
\* handleWebSocket returns and the heartbeat goroutine returns.
C24_ClosedReleasesTasks ==
    \A c \in Conns :
        (conn[c] = "closed") ~> (crashed \/ (pc[c] = "done" /\ ping[c] = "done"))

\* The identifiers of the rows of the notifications table.
NotificationIds == {notifications[i].id : i \in 1..Len(notifications)}

\* C25. CreateNotification calls ws.SendNotification only for a notification
\* whose row it has created: a request that creates no row (rejected, or
\* h.db.Create failed) makes no sendToUser call and writes to no handle, a
\* request that creates its row makes one sendToUser call for its receiver, and
\* every "notification" event written or about to be written carries the
\* identifier of a row.
C25_NotificationAfterRow ==
    /\ [][(rest' # rest /\ rest'.fn = "CreateNotification")
           => /\ recv' = recv
              /\ IF rest'.resp.status = 200
                 THEN /\ notifications' =
                            Append(notifications, [id |-> rest'.req[2],
                                                   userId |-> rest'.req[1]])
                      /\ todo'[Emitter] =
                            <<Delivery(rest'.req[1],
                                       [type |-> "notification",
                                        data |-> {rest'.req[2]},
                                        from |-> NoId])>>
                 ELSE /\ notifications' = notifications
                      /\ todo'[Emitter] = <<>>
                      /\ pc'[Emitter] = "idle"]_vars
    /\ [](/\ \A c \in Conns : \A i \in 1..Len(recv[c]) :
                recv[c][i].type = "notification"
                => recv[c][i].data \subseteq NotificationIds
           /\ \A k \in 1..Len(todo[Emitter]) :
                todo[Emitter][k].ev.type = "notification"
                => todo[Emitter][k].ev.data \subseteq NotificationIds)

\* The creation of a notification for a receiver who is registered with a
\* working handle has just failed: the answer is 500, no row exists, and no
\* handle was written a "notification".
C25_Witness ==
    /\ rest.fn = "CreateNotification"
    /\ rest.resp.status = 500
    /\ pc[Emitter] = "idle"
    /\ activeUsers[rest.req[1]] # None
    /\ WriteOk(activeUsers[rest.req[1]])
    /\ notifications = <<>>

C27_CleanupRemovesOwnEntryOnly ==
    [][\A c \in Conns :
          (pc[c] = "cl_body" /\ pc'[c] # "cl_body")
          => \A k \in Keys :
                ( /\ activeUsers[k] \notin {None, c}
                  /\ WriteOk(activeUsers[k]) )
                => activeUsers'[k] = activeUsers[k]]_vars

\* No handler is inside the body of a case or in its cleanup, and the emitter
\* is idle: no presence broadcast runs and nothing changes activeUsers until
\* another envelope or failure arrives.
Quiescent ==
    /\ ~crashed
    /\ \A c \in Conns : pc[c] \in {"idle", "read", "done"}
    /\ pc[Emitter] = "idle"

\* The positions of the "get-users" events written to handle h.
Presences(h) == {i \in 1..Len(recv[h]) : recv[h][i].type = "get-users"}

\* C28. When no presence broadcast runs and nothing is changing activeUsers,
\* the last "get-users" event written to every registered connection with a
\* working handle carries exactly the registered identities.
C28_PresenceConverges ==
    Quiescent
    => \A c \in Conns :
          IsRegUp(c)
          => /\ Presences(c) # {}
             /\ LET last == CHOOSE i \in Presences(c) :
                                \A j \in Presences(c) : j <= i
                IN  recv[c][last].data = Registered

\* An entry of activeUsers holds the handle of connection c.
Held(c) == \E k \in Keys : activeUsers[k] = c

\* C29. A step of the handler of a connection that no entry of activeUsers
\* holds, before and after the step, writes to no handle and leaves activeCalls
\* as it was.
C29_UnregisteredHasNoEffect ==
    [][\A c \in Conns :
          (pc'[c] # pc[c] /\ ~Held(c) /\ ~Held(c)')
          => /\ recv' = recv
             /\ activeCalls' = activeCalls]_vars

\* The entries of activeUsers that hold the handle of connection c.
EntriesOf(c) == {k \in Keys : activeUsers[k] = c}

\* C30. The handle of a connection is stored in at most one entry of
\* activeUsers, and in none once the connection's disconnect cleanup is over.
C30_HandleInOneEntry ==
    \A c \in Conns :
        /\ Cardinality(EntriesOf(c)) <= 1
        /\ CleanedUp(c) => EntriesOf(c) = {}

\* The event the step writes to handle h, when it writes one.
Written(h) == recv'[h][Len(recv'[h])]

\* The types of the events of the relays that name one target.
DirectedTypes ==
    {"receive-message", "notification", "post-reaction-update",
     "comment-reaction-update", "call-request", "call-accepted",
     "call-rejected", "call-ended"}

C32_InitiatorNotReplaced ==
    [][\A ch \in Channels :
          activeCalls[ch] # Absent
          => activeCalls'[ch] \in {activeCalls[ch], Absent}]_vars

\* C33. The initiator recorded for a channel is an identity whose entry in
\* activeUsers holds the connection that sent the "call-request": it is the
\* identity that connection is registered under, and it is registered.
C33_InitiatorIsRegisteredCaller ==
    \A ch \in Channels :
        activeCalls[ch] # Absent
        => /\ activeUsers[activeCalls[ch]] # None
           /\ activeUsers[activeCalls[ch]] = caller[ch]

\* Identity u is registered on a handle whose transport works.
OnlineId(u) == activeUsers[u] # None /\ conn[activeUsers[u]] = "up"

\* The handle of identity u was written event ev.
Got(u, ev) ==
    /\ activeUsers[u] # None
    /\ \E i \in 1..Len(recv[activeUsers[u]]) : recv[activeUsers[u]][i] = ev

\* The handler of c is forwarding a "call-accepted".
Accepting(c) == todo[c] # <<>> /\ Head(todo[c]).ev.type = "call-accepted"

\* The "call-accepted" signal of callee v for channel ch.
Accepted(v, ch) == [type |-> "call-accepted", data |-> {ch}, from |-> v]

\* C34. The steps of a handler that forwards a "call-accepted" leave
\* activeCalls as it was and write at most one event to a handle; the caller,
\* while registered on a working handle, is eventually written the
\* "call-accepted"; and the caller and the callee, while registered on a
\* working handle, are each eventually written the "agora-token" of the
\* channel (unless the process is gone).
C34_AcceptedCallGetsTokens ==
    /\ [][\A c \in Conns :
             (pc'[c] # pc[c] /\ (Accepting(c) \/ Accepting(c)'))
             => /\ activeCalls' = activeCalls
                /\ \A h \in Conns : Len(recv'[h]) <= Len(recv[h]) + 1]_vars
    /\ \A c \in Conns : \A u, v \in Ids : \A ch \in Channels :
          (todo[c] = <<Delivery(u, Accepted(v, ch))>> /\ OnlineId(u))
          ~> (crashed \/ ~OnlineId(u) \/ Got(u, Accepted(v, ch)))
    /\ \A t \in Tokeners : \A u \in Ids : \A ch \in Channels :
          (todo[t] = <<Delivery(u, AgoraToken(ch))>> /\ OnlineId(u))
          ~> (crashed \/ ~OnlineId(u) \/ Got(u, AgoraToken(ch)))

----------------------------------------------------------------------------
\* AddMessage gets past its checks for request r when the database holds l.
Accepts(r, l) == 200 \in AddMessageStatuses(r, l)

\* C35: the chat socket accepts only what AddMessage accepts. A step of
\* message.HandleWebSocket that goes on from the checks of a request to the
\* create, that stores the message, or that publishes it, is taken only for a
\* request AddMessage would store and publish with the same rows in the
\* database: the chat exists, the sender exists and is a member, the other
\* member exists and is a friend of the sender.
C35_SocketAcceptsWhatRestAccepts ==
    [][\A c \in Conns :
          /\ (mpc[c] = "validate" /\ mpc'[c] = "create")
             => Accepts(req[c], found'[c])
          /\ (mpc[c] = "create" /\ mpc'[c] = "publish")
             => Accepts(req[c], found[c])
          /\ (mpc[c] = "publish" /\ mpc'[c] = "read")
             => Accepts(req[c], found[c])]_vars

\* message.HandleWebSocket was entered for connection c with userId u.
Opened(c, u) == mpc[c] # "idle" /\ userID[c] = u

\* message.HandleWebSocket is in its read loop for connection c.
Serving(c) == mpc[c] \in {"read", "validate", "create", "publish"}

\* C36: h.activeUsers follows the chat sockets. For every userId, once the
\* handler has returned for every connection opened with it (with an empty
\* userId, after a failed chat lookup, or after a failed read) h.activeUsers
\* has no entry for it; and while the handler still serves a connection
\* opened with it the entry is there.
C36_EntryFollowsConnections ==
    \A u \in UserIDs :
       /\ (/\ \E c \in Conns : Opened(c, u)
           /\ \A c \in Conns : Opened(c, u) => mpc[c] = "done")
          => u \notin hActiveUsers
       /\ (\E c \in Conns : Opened(c, u) /\ Serving(c))
          => u \in hActiveUsers

====
